---- MODULE Spec2Model ----
(***************************************************************************)
(* A model of the content_creator repository: the 18-scene validator of    *)
(* sceneCreator.py, the rate-limited image batch of imgCreator.py, the     *)
(* batch and retry passes of streamlit_image_handler.py, and the           *)
(* spreadsheet analysis script.  Every component has its own               *)
(* specification; a component that a specification does not run stays in   *)
(* its "idle" position.                                                    *)
(***************************************************************************)
EXTENDS Integers, Sequences, FiniteSets, TLC

VARIABLES
    \* Result.validate_18_scenes (sceneCreator.py)
    v,                  \* the candidate scenes mapping handed to the validator
    vout,               \* what the validator produced: a mapping or a ValueError
    vpc,
    \* col_num_to_letter (테스트.py)
    cn,                 \* the column index passed in
    cletters,           \* the letters returned
    cpc,
    \* generate_all_scenes_with_rate_limit (imgCreator.py)
    scene_num,          \* the loop variable of the batch
    results,            \* scene number -> image path or None
    bevents,            \* the image calls and sleeps made so far, in order
    boutcome,           \* how the image call of each attempted scene ended
    bpc,
    \* StreamlitImageHandler.create_multiple_images_with_progress
    prompts,            \* the prompts passed in
    idx,                \* the 0-based loop index
    mresults,           \* the results list
    mevents,            \* the rate-limit waits and image calls made so far
    mpc,
    \* StreamlitImageHandler.retry_failed_images
    failed_prompts,     \* the (idx, prompt) pairs still to retry
    failed0,            \* the failed_prompts argument as passed in
    max_retries,
    retry_num,          \* the loop variable of the rounds
    remaining_failures,
    rpos,               \* the position of the inner loop in failed_prompts
    retry_results,      \* idx -> path of the retries that succeeded
    revents,            \* the rate-limit waits and image calls made so far
    rpc,
    \* analyze_data_with_ai_and_update_sheet (테스트.py)
    nrows,              \* the rows of the data frame, indexed 0..nrows-1
    futures,            \* row index -> "running", "result" or "exception"
    completion_order,   \* the rows in the order as_completed yielded them
    total_result,
    headers,            \* row 1 of the worksheet
    batch_updates,      \* the batch_data of every values_batch_update call
    returned,           \* the value returned to the caller
    spc,
    \* the call structure of the two image batch loops
    fpath,              \* which loop runs
    fitems,             \* how many items the loop goes over
    fnext,              \* the 1-based number of the next attempt
    inflight,           \* the attempts whose image call has begun and not ended
    fmax_workers,       \* the max_workers argument (1 where there is none)
    fended,             \* the attempts whose image call returned or raised, in order
    fsleeps,            \* the rate-limit sleeps made so far
    fpc,
    \* get_generation_summary and save_generation_report (streamlit_image_handler.py)
    sprompts,           \* the prompts argument
    sresults,           \* the results argument
    summary,            \* what get_generation_summary returned
    report,             \* the report dictionary
    report_files,       \* path -> the report written there
    gpc,
    \* the scene-creation button of streamlit_app.main
    scenes_data,        \* st.session_state.scenes_data
    scene_creation_complete,\* st.session_state.scene_creation_complete
    scene_files,        \* the scenes JSON files written, in order
    shown,              \* the last message put on the page
    create_call,        \* how the create_scenes call of the last click ended
    ui_clicks,          \* the clicks on the button so far
    upc,
    \* generate_scene_image (imgCreator.py)
    json_file,          \* the scenes JSON file: absent, or its content
    scene_number,       \* the scene_number argument
    out_dir,            \* the output_dir argument
    image_calls,        \* the generate_image calls made, with their arguments
    written,            \* the paths of the image files written
    image_result,       \* how generate_scene_image ended
    ipc,
    \* the all-18-scenes button of streamlit_app.main
    generated_images,   \* st.session_state.generated_images
    images_before,      \* generated_images when the button was clicked
    ub_scene,           \* the loop variable scene_num
    ub_outcome,         \* scene number -> how its generate_scene_image call ended
    ub_attempts,        \* the scene numbers passed to generate_scene_image, in order
    ub_sleeps,          \* the time.sleep(12) calls made
    temp_files,         \* the temporary JSON files that exist
    ubpc,
    \* st.session_state and its lifecycle functions
    session_state,      \* key -> value, for the keys that are present
    last_op,            \* the lifecycle function called last
    call_outcome,       \* how the operation under handle_errors ended
    call_result,        \* what the wrapper of handle_errors gave its caller
    sspc,
    \* FileManager.cleanup_temp_dir (streamlit_utils.py)
    fs_dirs,            \* the directories that exist, as strings of characters
    dirs_before,        \* the directories that existed when the call was made
    temp_path,          \* the temp_path argument
    force,              \* the force argument
    cleanup_result,     \* what cleanup_temp_dir returned
    kpc,
    \* two sessions of streamlit_app.main running the all-18-scenes button
    shared_temp,        \* the content of temp_scenes_all.json in the working directory
    sess_scene,         \* session -> its loop variable scene_num
    read_foreign,       \* session -> the scenes it generated from another session's scenes
    read_missing,       \* session -> the scenes whose read found no file
    sess_pc,            \* session -> where its handler is
    \* scene creation, the single-image button and the gallery of streamlit_app.main
    held_scenes,        \* the narrative whose scenes st.session_state.scenes_data holds
    shown_images,       \* st.session_state.generated_images of this session
    image_files,        \* image path -> the narrative the file was generated from
    gal_clicks,         \* the clicks made so far
    galpc,
    \* generate_all_scenes_with_rate_limit on a scenes file with one malformed scene
    mal_scenes,         \* the scenes mapping of the loaded file
    mal_scene,          \* the loop variable scene_num
    mal_results,        \* the results dict
    mal_calls,          \* the scenes generate_image was called for
    mal_failed,         \* the generate_image calls that gave no image
    malpc,
    \* example_usage: the first pass, the retry pass and the merge of its results
    first_results,      \* the results list as the first pass returned it
    merged_results,     \* the results list of example_usage
    mgpc,
    \* SettingsManager
    class_defaults,     \* the dictionary held by SettingsManager.DEFAULT_SETTINGS
    settings_result     \* what the last get_settings call returned

valVars == <<v, vout, vpc>>
colVars == <<cn, cletters, cpc>>
batchVars == <<scene_num, results, bevents, boutcome, bpc>>
multiVars == <<prompts, idx, mresults, mevents, mpc>>
retryVars == <<failed_prompts, failed0, max_retries, retry_num,
               remaining_failures, rpos, retry_results, revents, rpc>>
sheetVars == <<nrows, futures, completion_order, total_result, headers,
               batch_updates, returned, spc>>
flightVars == <<fpath, fitems, fnext, inflight, fmax_workers, fended,
                fsleeps, fpc>>
summaryVars == <<sprompts, sresults, summary, report, report_files, gpc>>
uiVars == <<scenes_data, scene_creation_complete, scene_files, shown,
            create_call, ui_clicks, upc>>
sceneimgVars == <<json_file, scene_number, out_dir, image_calls, written,
                  image_result, ipc>>
uibatchVars == <<generated_images, images_before, ub_scene, ub_outcome,
                 ub_attempts, ub_sleeps, temp_files, ubpc>>
sessionVars == <<session_state, last_op, call_outcome, call_result, sspc>>
cleanupVars == <<fs_dirs, dirs_before, temp_path, force, cleanup_result, kpc>>
sessionsVars == <<shared_temp, sess_scene, read_foreign, read_missing,
                  sess_pc>>
galleryVars == <<held_scenes, shown_images, image_files, gal_clicks, galpc>>
malformedVars == <<mal_scenes, mal_scene, mal_results, mal_calls, mal_failed,
                   malpc>>
mergeVars == <<first_results, merged_results, mgpc>>
settingsVars == <<class_defaults, settings_result>>
vars == <<valVars, colVars, batchVars, multiVars, retryVars, sheetVars,
          flightVars, summaryVars, uiVars, sceneimgVars, uibatchVars,
          sessionVars, cleanupVars, sessionsVars, galleryVars, malformedVars,
          mergeVars, settingsVars>>

\* What the actions of one component leave alone.
notVal == <<colVars, batchVars, multiVars, retryVars, sheetVars, flightVars,
            summaryVars, uiVars, sceneimgVars, uibatchVars, sessionVars,
            cleanupVars, sessionsVars, galleryVars, malformedVars, mergeVars,
            settingsVars>>
notCol == <<valVars, batchVars, multiVars, retryVars, sheetVars, flightVars,
            summaryVars, uiVars, sceneimgVars, uibatchVars, sessionVars,
            cleanupVars, sessionsVars, galleryVars, malformedVars, mergeVars,
            settingsVars>>
notBatch == <<valVars, colVars, multiVars, retryVars, sheetVars, flightVars,
              summaryVars, uiVars, sceneimgVars, uibatchVars, sessionVars,
              cleanupVars, sessionsVars, galleryVars, malformedVars,
              mergeVars, settingsVars>>
notMulti == <<valVars, colVars, batchVars, retryVars, sheetVars, flightVars,
              summaryVars, uiVars, sceneimgVars, uibatchVars, sessionVars,
              cleanupVars, sessionsVars, galleryVars, malformedVars,
              mergeVars, settingsVars>>
notRetry == <<valVars, colVars, batchVars, multiVars, sheetVars, flightVars,
              summaryVars, uiVars, sceneimgVars, uibatchVars, sessionVars,
              cleanupVars, sessionsVars, galleryVars, malformedVars,
              mergeVars, settingsVars>>
notSheet == <<valVars, colVars, batchVars, multiVars, retryVars, flightVars,
              summaryVars, uiVars, sceneimgVars, uibatchVars, sessionVars,
              cleanupVars, sessionsVars, galleryVars, malformedVars,
              mergeVars, settingsVars>>
notFlight == <<valVars, colVars, batchVars, multiVars, retryVars, sheetVars,
               summaryVars, uiVars, sceneimgVars, uibatchVars, sessionVars,
               cleanupVars, sessionsVars, galleryVars, malformedVars,
               mergeVars, settingsVars>>
notSummary == <<valVars, colVars, batchVars, multiVars, retryVars, sheetVars,
                flightVars, uiVars, sceneimgVars, uibatchVars, sessionVars,
                cleanupVars, sessionsVars, galleryVars, malformedVars,
                mergeVars, settingsVars>>
notUi == <<valVars, colVars, batchVars, multiVars, retryVars, sheetVars,
           flightVars, summaryVars, sceneimgVars, uibatchVars, sessionVars,
           cleanupVars, sessionsVars, galleryVars, malformedVars, mergeVars,
           settingsVars>>
notSceneImage == <<valVars, colVars, batchVars, multiVars, retryVars,
                   sheetVars, flightVars, summaryVars, uiVars, uibatchVars,
                   sessionVars, cleanupVars, sessionsVars, galleryVars,
                   malformedVars, mergeVars, settingsVars>>
notUiBatch == <<valVars, colVars, batchVars, multiVars, retryVars, sheetVars,
                flightVars, summaryVars, uiVars, sceneimgVars, sessionVars,
                cleanupVars, sessionsVars, galleryVars, malformedVars,
                mergeVars, settingsVars>>
notSession == <<valVars, colVars, batchVars, multiVars, retryVars, sheetVars,
                flightVars, summaryVars, uiVars, sceneimgVars, uibatchVars,
                cleanupVars, sessionsVars, galleryVars, malformedVars,
                mergeVars, settingsVars>>
notCleanup == <<valVars, colVars, batchVars, multiVars, retryVars, sheetVars,
                flightVars, summaryVars, uiVars, sceneimgVars, uibatchVars,
                sessionVars, sessionsVars, galleryVars, malformedVars,
                mergeVars, settingsVars>>
notSessions == <<valVars, colVars, batchVars, multiVars, retryVars,
                 sheetVars, flightVars, summaryVars, uiVars, sceneimgVars,
                 uibatchVars, sessionVars, cleanupVars, galleryVars,
                 malformedVars, mergeVars, settingsVars>>
notGallery == <<valVars, colVars, batchVars, multiVars, retryVars, sheetVars,
                flightVars, summaryVars, uiVars, sceneimgVars, uibatchVars,
                sessionVars, cleanupVars, sessionsVars, malformedVars,
                mergeVars, settingsVars>>
notMalformed == <<valVars, colVars, batchVars, multiVars, retryVars,
                  sheetVars, flightVars, summaryVars, uiVars, sceneimgVars,
                  uibatchVars, sessionVars, cleanupVars, sessionsVars,
                  galleryVars, mergeVars, settingsVars>>
notMerge == <<valVars, colVars, batchVars, multiVars, retryVars, sheetVars,
              flightVars, summaryVars, uiVars, sceneimgVars, uibatchVars,
              sessionVars, cleanupVars, sessionsVars, galleryVars,
              malformedVars, settingsVars>>
notSettings == <<valVars, colVars, batchVars, multiVars, retryVars,
                 sheetVars, flightVars, summaryVars, uiVars, sceneimgVars,
                 uibatchVars, sessionVars, cleanupVars, sessionsVars,
                 galleryVars, malformedVars, mergeVars>>

\* Python's None.
None == "None"

(***************************************************************************)
(* Bounds of the model.                                                    *)
(***************************************************************************)
\* At most this many of scene_1..scene_18 are left out of a candidate mapping.
MaxMissing == 2
\* At most this many keys outside scene_1..scene_18 are offered to a candidate.
MaxExtra == 3
\* Column indices 1..MaxCol are converted.
MaxCol == 750
\* At most this many image calls of one batch end without an image.
MaxFailures == 3
\* At most this many prompts are passed to the handler.
MaxPrompts == 4
\* max_retries is drawn from 0..MaxRetries.
MaxRetries == 3
\* The data frame has at most this many rows.
MaxRows == 4
\* max_workers is drawn from 0..MaxWorkers.
MaxWorkers == 3
\* The scene-creation button is clicked at most this many times.
MaxClicks == 4
\* scene_number is drawn from 1 - MaxOutside .. 18 + MaxOutside.
MaxOutside == 2
\* At most this many scenes of one click on the all-scenes button end
\* without an image.
MaxSceneFailures == 2
\* The error log is given at most this many records.
MaxErrors == 3

RECURSIVE SubsetsUpTo(_, _)
\* The subsets of S with at most k elements.
SubsetsUpTo(S, k) ==
    IF k = 0 THEN {{}}
    ELSE LET P == SubsetsUpTo(S, k - 1)
         IN  P \cup {p \cup {x} : p \in P, x \in S}

(***************************************************************************)
(* sceneCreator.py: Result.validate_18_scenes                              *)
(***************************************************************************)
\* f"scene_{i}"
scene_key(i) == "scene_" \o ToString(i)

\* The Scene model: its two text fields.
Scene(script, main_keyword) == [script |-> script, main_keyword |-> main_keyword]

\* raise ValueError(msg)
ValueError(msg) == [kind |-> "ValueError", msg |-> msg]

\* return v
Returned(m) == [kind |-> "return", value |-> m]

LenOk_ge(m) == Cardinality(DOMAIN m) >= 18
\* len(v) == 18, the negation of the test that raises
LenOk(m) == Cardinality(DOMAIN m) = 18

InCheckRange_short(i) == i >= 1 /\ i < 18
\* i in range(1, 19)
InCheckRange(i) == i >= 1 /\ i < 19

RECURSIVE CheckKeys(_, _)
\* The for loop over range(1, 19), from iteration i on.
CheckKeys(m, i) ==
    IF ~InCheckRange(i) THEN Returned(m)
    ELSE IF scene_key(i) \notin DOMAIN m
         THEN ValueError("Missing required scene: " \o scene_key(i))
         ELSE CheckKeys(m, i + 1)

validate_18_scenes_keys_first(m) ==
    LET keys == CheckKeys(m, 1)
    IN  IF keys.kind = "ValueError" THEN keys
        ELSE IF ~LenOk(m)
             THEN ValueError("Must have exactly 18 scenes, got "
                             \o ToString(Cardinality(DOMAIN m)))
             ELSE keys
validate_18_scenes(m) ==
    IF ~LenOk(m)
    THEN ValueError("Must have exactly 18 scenes, got "
                    \o ToString(Cardinality(DOMAIN m)))
    ELSE CheckKeys(m, 1)

\* Keys a language model may produce besides scene_1..scene_18.
OtherKeys == <<"scene_0", "scene_19", "scene_01", "extra", "Scene_1", "scene_">>
ExtraKeys == {OtherKeys[j] : j \in 1..(IF MaxExtra < Len(OtherKeys) THEN MaxExtra ELSE Len(OtherKeys))}
RequiredKeys == {scene_key(i) : i \in 1..18}

\* The candidate mappings: scene_1..scene_18 with up to MaxMissing keys left
\* out and any of the extra keys added, under two different texts.
CandidateMappings ==
    {[k \in (RequiredKeys \ {scene_key(i) : i \in missing}) \cup extra
        |-> Scene(text, k)] :
        missing \in SubsetsUpTo(1..18, MaxMissing),
        extra \in SUBSET ExtraKeys,
        text \in {"a", "b"}}

ValIdle == v = <<>> /\ vout = None /\ vpc = "idle"

ValInit == /\ v \in CandidateMappings
           /\ vout = None
           /\ vpc = "call"

\* Pydantic runs the field validator on the parsed mapping.
Validate ==
    /\ vpc = "call"
    /\ vout' = validate_18_scenes(v)
    /\ vpc' = "done"
    /\ UNCHANGED <<v, notVal>>

ValNext == Validate

(***************************************************************************)
(* 테스트.py: col_num_to_letter                                            *)
(***************************************************************************)
Alphabet == <<"A", "B", "C", "D", "E", "F", "G", "H", "I", "J", "K", "L", "M",
              "N", "O", "P", "Q", "R", "S", "T", "U", "V", "W", "X", "Y", "Z">>

\* chr(c) for the code points of the capital letters
chr(c) == Alphabet[c - 64]

divmod_nodec(n) == <<n \div 26, n % 26>>
\* divmod(n - 1, 26)
divmod_step(n) == <<(n - 1) \div 26, (n - 1) % 26>>

RECURSIVE col_loop(_, _)
\* The while n > 0 loop, with the letters built so far.
col_loop(n, result) ==
    IF n > 0
    THEN LET qr == divmod_step(n)
         IN  col_loop(qr[1], <<chr(65 + qr[2])>> \o result)
    ELSE result

\* The letters are kept as a sequence of one-letter strings.
col_num_to_letter(n) == col_loop(n, <<>>)

ColIdle == cn = 0 /\ cletters = <<>> /\ cpc = "idle"

ColInit == /\ cn \in 1..MaxCol
           /\ cletters = <<>>
           /\ cpc = "call"

ConvertCol ==
    /\ cpc = "call"
    /\ cletters' = col_num_to_letter(cn)
    /\ cpc' = "done"
    /\ UNCHANGED <<cn, notCol>>

ColNext == ConvertCol

(***************************************************************************)
(* imgCreator.py: generate_all_scenes_with_rate_limit                      *)
(***************************************************************************)
\* The empty dict.
EmptyDict == [x \in {} |-> None]

\* d[k] = val
DictSet(d, k, val) == [x \in DOMAIN d \cup {k} |-> IF x = k THEN val ELSE d[x]]

\* os.path.join(output_dir, f"scene_{scene_num}.png")
output_filename(output_dir, n) == output_dir \o "/scene_" \o ToString(n) \o ".png"

AttemptEvent(n) == [e |-> "generate_image", scene |-> n]
SleepEvent(secs) == [e |-> "sleep", secs |-> secs]

\* The image calls among a sequence of events.
Attempts(ev) == SelectSeq(ev, LAMBDA x : x.e = "generate_image")
\* The sleeps among a sequence of events.
Sleeps(ev) == SelectSeq(ev, LAMBDA x : x.e = "sleep")

\* The number of scenes attempted so far whose call gave no image.
Failures(outc) == Cardinality({n \in DOMAIN outc : outc[n] # "image"})

\* if scene_num < 18: time.sleep(12)
SleepIfNotLast(ev, n) == IF n < 18 THEN Append(ev, SleepEvent(12)) ELSE ev

BatchIdle ==
    /\ scene_num = 0 /\ results = EmptyDict /\ bevents = <<>>
    /\ boutcome = EmptyDict /\ bpc = "idle"

BatchInit ==
    /\ scene_num = 0 /\ results = EmptyDict /\ bevents = <<>>
    /\ boutcome = EmptyDict /\ bpc = "call"

\* makedirs, results = {}, load the scenes file, build the context and enter
\* the loop over range(1, 19).
BatchStart ==
    /\ bpc = "call"
    /\ results' = EmptyDict
    /\ scene_num' = 1
    /\ bpc' = "loop"
    /\ UNCHANGED <<bevents, boutcome, notBatch>>

\* One iteration in which generate_image returns: the output file name when
\* the download answered 200, None otherwise.  The sleep follows inside the
\* try block.
BatchSceneReturned ==
    /\ bpc = "loop"
    /\ scene_num < 19
    /\ \E got \in {"image", "no_image"} :
          /\ got = "no_image" => Failures(boutcome) < MaxFailures
          /\ boutcome' = DictSet(boutcome, scene_num, got)
          /\ results' = DictSet(results, scene_num,
                                IF got = "image"
                                THEN output_filename("images", scene_num)
                                ELSE None)
    /\ bevents' = SleepIfNotLast(Append(bevents, AttemptEvent(scene_num)), scene_num)
    /\ scene_num' = scene_num + 1
    /\ UNCHANGED <<bpc, notBatch>>

BatchSceneRaised_propagate ==
    /\ bpc = "loop"
    /\ scene_num < 19
    /\ Failures(boutcome) < MaxFailures
    /\ boutcome' = DictSet(boutcome, scene_num, "raise")
    /\ bevents' = Append(bevents, AttemptEvent(scene_num))
    /\ bpc' = "raised"
    /\ UNCHANGED <<results, scene_num, notBatch>>

\* One iteration in which generate_image raises: the except clause records
\* None and the loop goes on; the sleep of the try block is skipped.
BatchSceneRaised ==
    /\ bpc = "loop"
    /\ scene_num < 19
    /\ Failures(boutcome) < MaxFailures
    /\ boutcome' = DictSet(boutcome, scene_num, "raise")
    /\ results' = DictSet(results, scene_num, None)
    /\ bevents' = Append(bevents, AttemptEvent(scene_num))
    /\ scene_num' = scene_num + 1
    /\ UNCHANGED <<bpc, notBatch>>

BatchReturn_early ==
    /\ bpc = "loop"
    /\ scene_num >= 18
    /\ bpc' = "returned"
    /\ UNCHANGED <<scene_num, results, bevents, boutcome, notBatch>>

\* return results
BatchReturn ==
    /\ bpc = "loop"
    /\ scene_num = 19
    /\ bpc' = "returned"
    /\ UNCHANGED <<scene_num, results, bevents, boutcome, notBatch>>

BatchNext == BatchStart \/ BatchSceneReturned \/ BatchSceneRaised \/ BatchReturn

(***************************************************************************)
(* streamlit_image_handler.py: StreamlitImageHandler                       *)
(***************************************************************************)
\* self.rate_limit_delay
rate_limit_delay == 12

RateLimitEvent(secs) == [e |-> "rate_limit", secs |-> secs]
SingleImageEvent(i) == [e |-> "create_single_image", idx |-> i]

\* The image calls among the handler's events.
ImageCalls(ev) == SelectSeq(ev, LAMBDA x : x.e = "create_single_image")
\* The rate-limit waits among the handler's events.
Waits(ev) == SelectSeq(ev, LAMBDA x : x.e = "rate_limit")

RECURSIVE SleepSeconds(_)
\* for i in range(self.rate_limit_delay): time.sleep(1)
SleepSeconds(k) == IF k <= 0 THEN 0 ELSE 1 + SleepSeconds(k - 1)

\* handle_rate_limit: one wait of rate_limit_delay seconds.
handle_rate_limit(ev) == Append(ev, RateLimitEvent(SleepSeconds(rate_limit_delay)))

\* The file create_single_image saves for a prompt.
SavedImage(output_dir, prompt) == output_dir \o "/" \o prompt \o ".png"

\* How a call of create_single_image may end.
SingleImageOutcomes == {"path", "falsy", "raise"}

\* create_single_image_with_progress: the path when create_single_image
\* returned one; None when it returned nothing or raised.
create_single_image_with_progress(prompt, output_dir, outcome) ==
    IF outcome = "path" THEN SavedImage(output_dir, prompt) ELSE None

NeedsWait_always(i) == i >= 0
\* if idx > 0
NeedsWait(i) == i > 0

RECURSIVE SeqsUpTo(_, _)
\* The sequences over S of length at most k.
SeqsUpTo(S, k) ==
    IF k = 0 THEN {<<>>}
    ELSE LET P == SeqsUpTo(S, k - 1)
         IN  P \cup {Append(q, x) : q \in P, x \in S}

MultiIdle ==
    /\ prompts = <<>> /\ idx = 0 /\ mresults = <<>> /\ mevents = <<>>
    /\ mpc = "idle"

MultiInit ==
    /\ prompts \in SeqsUpTo({"cat", "dog"}, MaxPrompts)
    /\ idx = 0 /\ mresults = <<>> /\ mevents = <<>>
    /\ mpc = "call"

\* results = [] and the loop over enumerate(prompts) is entered.
MultiStart ==
    /\ mpc = "call"
    /\ mresults' = <<>>
    /\ idx' = 0
    /\ mpc' = "loop"
    /\ UNCHANGED <<prompts, mevents, notMulti>>

\* One iteration: the rate-limit wait unless this is the first prompt, the
\* image call, and the result appended.
MultiIteration ==
    /\ mpc = "loop"
    /\ idx < Len(prompts)
    /\ \E outcome \in SingleImageOutcomes :
          LET waited == IF NeedsWait(idx) THEN handle_rate_limit(mevents) ELSE mevents
              result == create_single_image_with_progress(prompts[idx + 1], "out", outcome)
          IN  /\ mevents' = Append(waited, SingleImageEvent(idx))
              /\ mresults' = Append(mresults, result)
    /\ idx' = idx + 1
    /\ UNCHANGED <<prompts, mpc, notMulti>>

\* return results
MultiReturn ==
    /\ mpc = "loop"
    /\ idx = Len(prompts)
    /\ mpc' = "returned"
    /\ UNCHANGED <<prompts, idx, mresults, mevents, notMulti>>

MultiNext == MultiStart \/ MultiIteration \/ MultiReturn

\* [(idx, prompt) for idx, (prompt, result) in enumerate(zip(prompts, results))
\*  if result is None], for the indices in F: ascending, each index once.
RECURSIVE FailedList(_, _)
FailedList(F, i) ==
    IF \A x \in F : x < i THEN <<>>
    ELSE IF i \in F
         THEN <<(<<i, "prompt_" \o ToString(i)>>)>> \o FailedList(F, i + 1)
         ELSE FailedList(F, i + 1)

RetryEvent(i, round, ok) ==
    [e |-> "create_single_image", idx |-> i, round |-> round, ok |-> ok]

RoundsLeft_extra(num, max) == num <= max
\* for retry_num in range(max_retries): another round is due
RoundsLeft(num, max) == num < max

NextRemaining_all(rem, item, result) == Append(rem, item)
\* if result: retry_results[idx] = result
\* else: remaining_failures.append((idx, prompt))
NextRemaining(rem, item, result) ==
    IF result # None THEN rem ELSE Append(rem, item)

\* if len(retry_results) > 0
RetryNeedsWait(res) == Cardinality(DOMAIN res) > 0

RetryIdle ==
    /\ failed_prompts = <<>> /\ failed0 = <<>> /\ max_retries = 0
    /\ retry_num = 0 /\ remaining_failures = <<>> /\ rpos = 0
    /\ retry_results = EmptyDict /\ revents = <<>> /\ rpc = "idle"

RetryInit ==
    /\ failed_prompts \in {FailedList(F, 0) : F \in SUBSET (0..(MaxPrompts - 1))}
    /\ failed0 = failed_prompts
    /\ max_retries \in 0..MaxRetries
    /\ retry_num = 0 /\ remaining_failures = <<>> /\ rpos = 0
    /\ retry_results = EmptyDict /\ revents = <<>> /\ rpc = "call"

\* retry_results = {} and the loop over range(max_retries) is entered.
RetryStart ==
    /\ rpc = "call"
    /\ retry_results' = EmptyDict
    /\ retry_num' = 0
    /\ rpc' = "round"
    /\ UNCHANGED <<failed_prompts, failed0, max_retries, remaining_failures,
                   rpos, revents, notRetry>>

\* The head of a round: the loop ends when range(max_retries) is used up,
\* breaks when nothing is left to retry, and otherwise starts the round with
\* remaining_failures = [].
RetryRoundHead ==
    /\ rpc = "round"
    /\ IF RoundsLeft(retry_num, max_retries) /\ failed_prompts # <<>>
       THEN /\ remaining_failures' = <<>>
            /\ rpos' = 1
            /\ rpc' = "items"
       ELSE /\ rpc' = "return"
            /\ UNCHANGED <<remaining_failures, rpos>>
    /\ UNCHANGED <<failed_prompts, failed0, max_retries, retry_num,
                   retry_results, revents, notRetry>>

\* One retry of the inner loop: the rate-limit wait when some retry has
\* already succeeded, the image call, and the result recorded.
RetryItem ==
    /\ rpc = "items"
    /\ rpos <= Len(failed_prompts)
    /\ \E outcome \in SingleImageOutcomes :
          LET item == failed_prompts[rpos]
              waited == IF RetryNeedsWait(retry_results)
                        THEN handle_rate_limit(revents) ELSE revents
              result == create_single_image_with_progress(item[2], "out", outcome)
          IN  /\ revents' = Append(waited, RetryEvent(item[1], retry_num, result # None))
              /\ retry_results' = IF result # None
                                  THEN DictSet(retry_results, item[1], result)
                                  ELSE retry_results
              /\ remaining_failures' = NextRemaining(remaining_failures, item, result)
    /\ rpos' = rpos + 1
    /\ UNCHANGED <<failed_prompts, failed0, max_retries, retry_num, rpc, notRetry>>

\* The end of a round: failed_prompts = remaining_failures, then break when
\* it is empty, otherwise on to the next value of range(max_retries).
RetryRoundEnd ==
    /\ rpc = "items"
    /\ rpos > Len(failed_prompts)
    /\ failed_prompts' = remaining_failures
    /\ IF remaining_failures = <<>>
       THEN rpc' = "return" /\ UNCHANGED retry_num
       ELSE rpc' = "round" /\ retry_num' = retry_num + 1
    /\ UNCHANGED <<failed0, max_retries, remaining_failures, rpos,
                   retry_results, revents, notRetry>>

\* return retry_results
RetryReturn ==
    /\ rpc = "return"
    /\ rpc' = "done"
    /\ UNCHANGED <<failed_prompts, failed0, max_retries, retry_num,
                   remaining_failures, rpos, retry_results, revents, notRetry>>

RetryNext ==
    RetryStart \/ RetryRoundHead \/ RetryItem \/ RetryRoundEnd \/ RetryReturn

(***************************************************************************)
(* 테스트.py: analyze_data_with_ai_and_update_sheet                         *)
(***************************************************************************)
process_row_unshifted(r) == [result |-> "analysis_" \o ToString(r), row_index |-> r + 1]
\* process_row: the analysis of the row with data-frame index r, with the
\* sheet row it belongs to (data.Index + 2).
process_row(r) == [result |-> "analysis_" \o ToString(r), row_index |-> r + 2]

RECURSIVE InsertByRowIndex(_, _)
\* x put into the sorted list s behind every entry whose key is not larger.
InsertByRowIndex(x, s) ==
    IF s = <<>> THEN <<x>>
    ELSE IF s[Len(s)].row_index <= x.row_index
         THEN Append(s, x)
         ELSE Append(InsertByRowIndex(x, SubSeq(s, 1, Len(s) - 1)), s[Len(s)])

sort_by_row_index_none(s) == s
RECURSIVE sort_by_row_index(_)
\* total_result.sort(key=lambda x: x["row_index"]): a stable sort.
sort_by_row_index(s) ==
    IF s = <<>> THEN <<>>
    ELSE InsertByRowIndex(s[Len(s)], sort_by_row_index(SubSeq(s, 1, Len(s) - 1)))

\* headers.index(name) + 1
HeaderIndex(hs, name) == CHOOSE j \in 1..Len(hs) :
    hs[j] = name /\ \A k \in 1..(j - 1) : hs[k] # name

\* name in headers
InHeaders(hs, name) == \E j \in 1..Len(hs) : hs[j] = name

\* The batch_data built from total_result for the column of new_column_name.
BatchData(sheet_name, col_index, res) ==
    [j \in 1..Len(res) |->
        [range |-> <<sheet_name, col_num_to_letter(col_index), res[j].row_index>>,
         values |-> res[j].result]]

\* new_column_name of the run
new_column_name == "out"

SheetIdle ==
    /\ nrows = 0 /\ futures = EmptyDict /\ completion_order = <<>>
    /\ total_result = <<>> /\ headers = <<>> /\ batch_updates = <<>>
    /\ returned = None /\ spc = "idle"

SheetInit ==
    /\ nrows \in 0..MaxRows
    /\ headers \in {<<"input">>, <<"input", "out">>, <<"out", "input", "other">>}
    /\ futures = EmptyDict /\ completion_order = <<>>
    /\ total_result = <<>> /\ batch_updates = <<>>
    /\ returned = None /\ spc = "call"

\* The sheet is read, total_result = [] and one process_row per row is
\* submitted to the executor.
SheetSubmit ==
    /\ spc = "call"
    /\ futures' = [r \in 0..(nrows - 1) |-> "running"]
    /\ total_result' = <<>>
    /\ spc' = "collect"
    /\ UNCHANGED <<nrows, completion_order, headers, batch_updates, returned, notSheet>>

\* A worker finishes its row: process_row returns or raises.
WorkerFinish ==
    /\ spc = "collect"
    /\ \E r \in DOMAIN futures :
          /\ futures[r] = "running"
          /\ \E end \in {"result", "exception"} :
                futures' = [futures EXCEPT ![r] = end]
    /\ UNCHANGED <<nrows, completion_order, total_result, headers, batch_updates,
                   returned, spc, notSheet>>

Collect_incremental ==
    /\ spc = "collect"
    /\ \E r \in DOMAIN futures :
          /\ futures[r] # "running"
          /\ \A j \in 1..Len(completion_order) : completion_order[j] # r
          /\ completion_order' = Append(completion_order, r)
          /\ total_result' = IF futures[r] = "result"
                             THEN Append(total_result, process_row(r))
                             ELSE total_result
          /\ batch_updates' = IF futures[r] = "result"
                              THEN Append(batch_updates, <<process_row(r)>>)
                              ELSE batch_updates
    /\ UNCHANGED <<nrows, futures, headers, returned, spc, notSheet>>

\* as_completed yields a finished future: its result is appended, or its
\* exception is printed.
Collect ==
    /\ spc = "collect"
    /\ \E r \in DOMAIN futures :
          /\ futures[r] # "running"
          /\ \A j \in 1..Len(completion_order) : completion_order[j] # r
          /\ completion_order' = Append(completion_order, r)
          /\ total_result' = IF futures[r] = "result"
                             THEN Append(total_result, process_row(r))
                             ELSE total_result
    /\ UNCHANGED <<nrows, futures, headers, batch_updates, returned, spc, notSheet>>

\* Every future was yielded, the executor is left, and the list is sorted.
SheetSort ==
    /\ spc = "collect"
    /\ Len(completion_order) = nrows
    /\ total_result' = sort_by_row_index(total_result)
    /\ spc' = "sorted"
    /\ UNCHANGED <<nrows, futures, completion_order, headers, batch_updates,
                   returned, notSheet>>

\* The write-back without an error: the header is added behind the last
\* column when it is not there, and all cells go out in one batch update,
\* which is skipped when there is nothing to write.
SheetWriteBack ==
    /\ spc = "sorted"
    /\ LET hs == IF InHeaders(headers, new_column_name)
                 THEN headers
                 ELSE [j \in 1..(Len(headers) + 1) |->
                          IF j = Len(headers) + 1 THEN new_column_name ELSE headers[j]]
           col_index == HeaderIndex(hs, new_column_name)
           batch_data == BatchData("sheet", col_index, total_result)
       IN  /\ headers' = hs
           /\ batch_updates' = IF batch_data # <<>>
                               THEN Append(batch_updates, batch_data)
                               ELSE batch_updates
    /\ spc' = "written"
    /\ UNCHANGED <<nrows, futures, completion_order, total_result, returned, notSheet>>

SheetWriteFails_propagate ==
    /\ spc = "sorted"
    /\ spc' = "raised"
    /\ UNCHANGED <<nrows, futures, completion_order, total_result, headers,
                   batch_updates, returned, notSheet>>

\* The write-back with an error of the sheet API, caught by the outer except:
\* reading the headers, expanding the sheet, writing the header cell, reading
\* the headers again or the batch update raises.  A failure behind the
\* header cell's update leaves the newly added header in the sheet.
SheetWriteFails ==
    /\ spc = "sorted"
    /\ \E at \in {"row_values", "batch_update", "update_cell", "row_values_again",
                  "values_batch_update"} :
          /\ at \in {"batch_update", "update_cell", "row_values_again"}
                => ~InHeaders(headers, new_column_name)
          /\ at = "values_batch_update" => total_result # <<>>
          /\ headers' = IF /\ at \in {"row_values_again", "values_batch_update"}
                           /\ ~InHeaders(headers, new_column_name)
                        THEN Append(headers, new_column_name)
                        ELSE headers
    /\ spc' = "written"
    /\ UNCHANGED <<nrows, futures, completion_order, total_result, batch_updates,
                   returned, notSheet>>

\* return total_result
SheetReturn ==
    /\ spc = "written"
    /\ returned' = total_result
    /\ spc' = "done"
    /\ UNCHANGED <<nrows, futures, completion_order, total_result, headers,
                   batch_updates, notSheet>>

SheetNext ==
    \/ SheetSubmit \/ WorkerFinish \/ Collect \/ SheetSort
    \/ SheetWriteBack \/ SheetWriteFails \/ SheetReturn

(***************************************************************************)
(* The call structure of the two image batch loops: when the image call of *)
(* an attempt begins and when it ends.                                     *)
(***************************************************************************)
FlightPaths ==
    {"generate_all_scenes_with_rate_limit", "create_multiple_images_with_progress"}

\* How the image call of one attempt ends.  generate_image returns or raises;
\* create_single_image_with_progress catches every exception and returns.
CallOutcomes(path) ==
    IF path = "generate_all_scenes_with_rate_limit"
    THEN {"returned", "raised"}
    ELSE {"returned"}

\* The loop over prompts with the calls handed to a pool of max_workers threads.
Workers_pool(max_workers) == max_workers

\* The number of image calls a loop may have outstanding.  Both loops call in
\* their own thread and go on when the call has ended; max_workers is never
\* read.
Workers(max_workers) == 1

FlightIdle ==
    /\ fpath = "idle"
    /\ fitems = 0
    /\ fnext = 1
    /\ inflight = {}
    /\ fmax_workers = None
    /\ fended = <<>>
    /\ fsleeps = 0
    /\ fpc = "idle"

FlightInit ==
    /\ fpath \in FlightPaths
    /\ IF fpath = "generate_all_scenes_with_rate_limit"
       THEN fitems = 18 /\ fmax_workers = 1
       ELSE fitems \in 0..MaxPrompts /\ fmax_workers \in 0..MaxWorkers
    /\ fnext = 1
    /\ inflight = {}
    /\ fended = <<>>
    /\ fsleeps = 0
    /\ fpc = "loop"

\* The loop reaches the image call of its next item.  The handler waits for
\* the rate limit first when the item is not the first one.
FlightBegin ==
    /\ fpc = "loop"
    /\ fnext <= fitems
    /\ Cardinality(inflight) < Workers(fmax_workers)
    /\ inflight' = inflight \cup {fnext}
    /\ fnext' = fnext + 1
    /\ fsleeps' = IF fpath = "create_multiple_images_with_progress" /\ fnext - 1 > 0
                  THEN fsleeps + 1
                  ELSE fsleeps
    /\ UNCHANGED <<fpath, fitems, fmax_workers, fended, fpc, notFlight>>

\* An image call ends.  generate_all_scenes_with_rate_limit sleeps after a
\* call that returned when the scene is not the last one.
FlightEnd ==
    /\ fpc = "loop"
    /\ \E k \in inflight, outcome \in CallOutcomes(fpath) :
        /\ inflight' = inflight \ {k}
        /\ fended' = Append(fended, k)
        /\ fsleeps' = IF /\ fpath = "generate_all_scenes_with_rate_limit"
                         /\ outcome = "returned"
                         /\ k < 18
                      THEN fsleeps + 1
                      ELSE fsleeps
    /\ UNCHANGED <<fpath, fitems, fnext, fmax_workers, fpc, notFlight>>

\* return results
FlightReturn ==
    /\ fpc = "loop"
    /\ fnext > fitems
    /\ inflight = {}
    /\ fpc' = "returned"
    /\ UNCHANGED <<fpath, fitems, fnext, inflight, fmax_workers, fended,
                   fsleeps, notFlight>>

FlightNext == FlightBegin \/ FlightEnd \/ FlightReturn

(***************************************************************************)
(* StreamlitImageHandler.get_generation_summary and save_generation_report *)
(***************************************************************************)
\* What an entry of a results list can be: None, an empty string, a path.
ResultValues == {None, "", "out/image_1.png"}

\* datetime.now().isoformat()
Clock == {"2025-01-01T00:00:00", "2025-01-01T00:00:12"}

\* the settings dictionary of example_usage
ReportSettings == [quality |-> "standard", size |-> "1024x1024", style |-> "vivid"]

\* [r for r in results if r is not None]
NotNone(res) == SelectSeq(res, LAMBDA r : r # None)

\* (success / total * 100) if total > 0 else 0; the quotient is kept exact.
success_rate(success, total) ==
    IF total > 0 THEN [num |-> success * 100, den |-> total] ELSE 0

get_generation_summary(res) ==
    LET total == Len(res)
        success == Len(NotNone(res))
        failed == total - success
    IN  [total |-> total,
         success |-> success,
         failed |-> failed,
         success_rate |-> success_rate(success, total),
         generated_files |-> NotNone(res)]

\* Python's truth value of an Optional[str].
Truthy(r) == r # None /\ r # ""

\* zip(prompts, results) stops at the shorter list.
zip(a, b) ==
    [j \in 1..(IF Len(a) < Len(b) THEN Len(a) ELSE Len(b)) |-> <<a[j], b[j]>>]

\* The index of a detail numbered from zero.
DetailIndex_zero(i) == i

\* "index": idx + 1
DetailIndex(i) == i + 1

\* for idx, (prompt, result) in enumerate(zip(prompts, results)); idx = j - 1
ReportDetails(ps, res) ==
    [j \in DOMAIN zip(ps, res) |->
        [index |-> DetailIndex(j - 1),
         prompt |-> zip(ps, res)[j][1],
         result |-> zip(ps, res)[j][2],
         status |-> IF Truthy(zip(ps, res)[j][2]) THEN "success" ELSE "failed"]]

BuildReport(timestamp, settings, ps, res) ==
    [timestamp |-> timestamp,
     settings |-> settings,
     summary |-> get_generation_summary(res),
     details |-> ReportDetails(ps, res)]

\* os.path.join(output_dir, "generation_report.json")
report_path(output_dir) == output_dir \o "/generation_report.json"

SummaryIdle ==
    /\ sprompts = <<>>
    /\ sresults = <<>>
    /\ summary = None
    /\ report = None
    /\ report_files = EmptyDict
    /\ gpc = "idle"

SummaryInit ==
    /\ sprompts \in SeqsUpTo({"cat", "dog"}, MaxPrompts)
    /\ sresults \in SeqsUpTo(ResultValues, MaxPrompts)
    /\ summary = None
    /\ report = None
    /\ report_files = EmptyDict
    /\ gpc = "ready"

\* summary = handler.get_generation_summary(results)
GetSummary ==
    /\ gpc = "ready"
    /\ summary' = get_generation_summary(sresults)
    /\ gpc' = "summarised"
    /\ UNCHANGED <<sprompts, sresults, report, report_files, notSummary>>

\* save_generation_report builds the report and writes it.
SaveReport ==
    /\ gpc = "summarised"
    /\ \E timestamp \in Clock :
        /\ report' = BuildReport(timestamp, ReportSettings, sprompts, sresults)
        /\ report_files' = DictSet(report_files, report_path("out"), report')
    /\ gpc' = "saved"
    /\ UNCHANGED <<sprompts, sresults, summary, notSummary>>

\* open(report_path, "w") raises: the report is built and not written.
SaveReportFails ==
    /\ gpc = "summarised"
    /\ \E timestamp \in Clock :
        report' = BuildReport(timestamp, ReportSettings, sprompts, sresults)
    /\ gpc' = "raised"
    /\ UNCHANGED <<sprompts, sresults, summary, report_files, notSummary>>

SummaryNext == GetSummary \/ SaveReport \/ SaveReportFails

(***************************************************************************)
(* streamlit_app.py: the scene-creation button                             *)
(***************************************************************************)
\* What the language model's answer parses to: scene_1..scene_18, or that
\* with a key left out, a key added, or both.
LlmMappings ==
    {[k \in (RequiredKeys \ missing) \cup extra |-> Scene(text, k)] :
        missing \in {{}, {scene_key(7)}, {scene_key(18)}},
        extra \in {{}, {"scene_19"}},
        text \in {"a", "b"}}

\* How chain.invoke ends before the parser: the request raises, or the
\* answer is parsed to a candidate mapping.
LlmOutcomes ==
    {[kind |-> "raise", msg |-> "Connection error."]}
    \cup {[kind |-> "parsed", scenes |-> m] : m \in LlmMappings}

\* The chain with a parser that builds Result without running its validator.
agent_unvalidated(llm) ==
    IF llm.kind = "raise" THEN [kind |-> "raise", msg |-> llm.msg]
    ELSE [kind |-> "Result", scenes |-> llm.scenes]

\* sceneCreator.agent: prompt | llm | parser.  The parser builds a Result,
\* which runs validate_18_scenes on the scenes; its ValueError leaves the
\* call as an exception.
agent(llm) ==
    IF llm.kind = "raise" THEN [kind |-> "raise", msg |-> llm.msg]
    ELSE LET r == validate_18_scenes(llm.scenes)
         IN  IF r.kind = "ValueError"
             THEN [kind |-> "raise", msg |-> r.msg]
             ELSE [kind |-> "Result", scenes |-> r.value]

\* result.model_dump()
model_dump(result) == [scenes |-> result.scenes]

\* user_prompt.strip()
strip(s) == IF s \in {"", " ", "  "} THEN "" ELSE s

Message(kind, text) == [kind |-> kind, text |-> text]

\* Nothing has been put on the page.
NoMessage == Message("none", "")

\* None in a place that otherwise holds a dictionary.
NoData == [none |-> TRUE]

UiIdle ==
    /\ scenes_data = NoData
    /\ scene_creation_complete = FALSE
    /\ scene_files = <<>>
    /\ shown = NoMessage
    /\ create_call = "not_made"
    /\ ui_clicks = 0
    /\ upc = "idle"

\* The session after initialize_session_state.
UiInit ==
    /\ scenes_data = NoData
    /\ scene_creation_complete = FALSE
    /\ scene_files = <<>>
    /\ shown = NoMessage
    /\ create_call = "not_made"
    /\ ui_clicks = 0
    /\ upc = "ready"

\* One click on the button, to the end of its handler.
UiCreateScenes ==
    /\ upc = "ready"
    /\ ui_clicks < MaxClicks
    /\ ui_clicks' = ui_clicks + 1
    /\ \E user_prompt \in {"", "  ", "ad"}, llm \in LlmOutcomes, save_ok \in BOOLEAN :
        LET result == agent(llm)
        IN  IF strip(user_prompt) = ""
            THEN /\ shown' = Message("warning", "no prompt")
                 /\ create_call' = "not_made"
                 /\ UNCHANGED <<scenes_data, scene_creation_complete, scene_files>>
            ELSE IF result.kind = "raise"
            THEN /\ shown' = Message("error", result.msg)
                 /\ create_call' = "raised"
                 /\ UNCHANGED <<scenes_data, scene_creation_complete, scene_files>>
            ELSE /\ scenes_data' = model_dump(result)
                 /\ scene_creation_complete' = TRUE
                 /\ create_call' = "returned"
                 /\ IF save_ok
                    THEN /\ scene_files' = Append(scene_files, scenes_data')
                         /\ shown' = Message("success", "saved")
                    ELSE /\ scene_files' = scene_files
                         /\ shown' = Message("error", "Permission denied")
    /\ UNCHANGED <<upc, notUi>>

UiNext == UiCreateScenes

(***************************************************************************)
(* imgCreator.py: generate_scene_image                                     *)
(***************************************************************************)
\* The scene a scenes file holds under the key of number i.
FileScene(i) == Scene("script " \o ToString(i), "keyword" \o ToString(i))

\* The key -> scene mappings a scenes file may hold: scene_1..scene_18, with
\* scene_3 or scene_18 left out, with scene_0 and scene_19 added.
FileMappings ==
    {[k \in {scene_key(i) : i \in (1..18 \ missing) \cup extra} |->
        FileScene(CHOOSE i \in 0..19 : scene_key(i) = k)] :
        missing \in {{}, {3}, {18}},
        extra \in {{}, {0, 19}}}

\* The scenes JSON file: not there, or UTF-8 JSON with the top-level key scenes.
JsonFiles == {[exists |-> FALSE]} \cup {[exists |-> TRUE, scenes |-> m] : m \in FileMappings}

NoResult == [kind |-> "none"]
Raise(type, msg) == [kind |-> "raise", type |-> type, msg |-> msg]
Return(value) == [kind |-> "return", value |-> value]

\* The range test without its upper half.
OutOfRange_low(n) == n < 1

\* scene_number < 1 or scene_number > 18
OutOfRange(n) == n < 1 \/ n > 18

\* The arguments of the generate_image call.
ImageCall(scenes, n, dir) ==
    [selected_scene |-> n,
     scene_script |-> scenes[scene_key(n)].script,
     scene_keyword |-> scenes[scene_key(n)].main_keyword,
     output_filename |-> output_filename(dir, n)]

\* How generate_image ends: the image is fetched and written, the fetch
\* answers with another status than 200, or a request raises.
ImageOutcomes == {"image", "no_image", "raise"}

SceneImageIdle ==
    /\ json_file = [exists |-> FALSE]
    /\ scene_number = 1
    /\ out_dir = "images"
    /\ image_calls = <<>>
    /\ written = {}
    /\ image_result = NoResult
    /\ ipc = "idle"

SceneImageInit ==
    /\ json_file \in JsonFiles
    /\ scene_number \in (1 - MaxOutside)..(18 + MaxOutside)
    /\ out_dir \in {"images", "generated_images"}
    /\ image_calls = <<>>
    /\ written = {}
    /\ image_result = NoResult
    /\ ipc = "call"

\* load_scenes_from_json raises: there is no such file.
SceneImageLoadFails ==
    /\ ipc = "call"
    /\ ~json_file.exists
    /\ image_result' = Raise("FileNotFoundError", "No such file or directory")
    /\ ipc' = "raised"
    /\ UNCHANGED <<json_file, scene_number, out_dir, image_calls, written,
                   notSceneImage>>

\* The file is loaded and one of the two tests raises ValueError.
SceneImageRejects ==
    /\ ipc = "call"
    /\ json_file.exists
    /\ \/ /\ OutOfRange(scene_number)
          /\ image_result' = Raise("ValueError", "Scene number must be between 1 and 18")
       \/ /\ ~OutOfRange(scene_number)
          /\ scene_key(scene_number) \notin DOMAIN json_file.scenes
          /\ image_result' = Raise("ValueError", "Scene " \o ToString(scene_number)
                                                 \o " not found in the data")
    /\ ipc' = "raised"
    /\ UNCHANGED <<json_file, scene_number, out_dir, image_calls, written,
                   notSceneImage>>

\* The file is loaded, both tests pass and generate_image is called.
SceneImageCalls ==
    /\ ipc = "call"
    /\ json_file.exists
    /\ ~OutOfRange(scene_number)
    /\ scene_key(scene_number) \in DOMAIN json_file.scenes
    /\ image_calls' = Append(image_calls,
                             ImageCall(json_file.scenes, scene_number, out_dir))
    /\ ipc' = "in_generate_image"
    /\ UNCHANGED <<json_file, scene_number, out_dir, written, image_result,
                   notSceneImage>>

\* generate_image ends and generate_scene_image returns what it returned, or
\* lets its exception through.
SceneImageCallEnds ==
    /\ ipc = "in_generate_image"
    /\ \E outcome \in ImageOutcomes :
        LET call == image_calls[Len(image_calls)]
        IN  \/ /\ outcome = "image"
               /\ written' = written \cup {call.output_filename}
               /\ image_result' = Return(call.output_filename)
               /\ ipc' = "returned"
            \/ /\ outcome = "no_image"
               /\ written' = written
               /\ image_result' = Return(None)
               /\ ipc' = "returned"
            \/ /\ outcome = "raise"
               /\ written' = written
               /\ image_result' = Raise("APIError", "request failed")
               /\ ipc' = "raised"
    /\ UNCHANGED <<json_file, scene_number, out_dir, image_calls, notSceneImage>>

SceneImageNext ==
    \/ SceneImageLoadFails \/ SceneImageRejects
    \/ SceneImageCalls \/ SceneImageCallEnds

(***************************************************************************)
(* streamlit_app.py: the button that generates all 18 scene images        *)
(***************************************************************************)
\* temp_json_file
temp_scenes_all == "temp_scenes_all.json"

\* What generated_images may hold when the button is clicked: nothing, a
\* path for scene 3 and a None for scene 5 from single-scene clicks, or a
\* path for every scene from an earlier batch.
PriorImages ==
    {EmptyDict,
     [n \in {3, 5} |-> IF n = 3 THEN output_filename("generated_images", n) ELSE None],
     [n \in 1..18 |-> output_filename("generated_images", n)]}

\* The scenes whose call did not give an image so far.
SceneFailures(outc) == Cardinality({n \in DOMAIN outc : outc[n] # "image"})

UiBatchIdle ==
    /\ generated_images = EmptyDict
    /\ images_before = EmptyDict
    /\ ub_scene = 0
    /\ ub_outcome = EmptyDict
    /\ ub_attempts = <<>>
    /\ ub_sleeps = 0
    /\ temp_files = {}
    /\ ubpc = "idle"

\* The button is shown when scenes_data is set; it has just been clicked.
UiBatchInit ==
    /\ generated_images \in PriorImages
    /\ images_before = generated_images
    /\ ub_scene = 0
    /\ ub_outcome = EmptyDict
    /\ ub_attempts = <<>>
    /\ ub_sleeps = 0
    /\ temp_files = {}
    /\ ubpc = "clicked"

\* The temporary file is saved, the image directory made and the loop entered.
UiBatchStart ==
    /\ ubpc = "clicked"
    /\ temp_files' = temp_files \cup {temp_scenes_all}
    /\ ub_scene' = 1
    /\ ubpc' = "loop"
    /\ UNCHANGED <<generated_images, images_before, ub_outcome, ub_attempts,
                   ub_sleeps, notUiBatch>>

\* save_scenes_to_json raises and the handler is left; or os.makedirs raises,
\* the outer except branch shows the error and removes the temporary file.
UiBatchSetupFails ==
    /\ ubpc = "clicked"
    /\ \E step \in {"save_scenes_to_json", "os.makedirs"} :
        ubpc' = IF step = "save_scenes_to_json" THEN "raised" ELSE "failed"
    /\ temp_files' = temp_files \ {temp_scenes_all}
    /\ UNCHANGED <<generated_images, images_before, ub_scene, ub_outcome,
                   ub_attempts, ub_sleeps, notUiBatch>>

\* One iteration in which generate_scene_image raises: st.error and continue,
\* with the entry of the scene written as None.
UiBatchSceneRaised_records ==
    /\ ubpc = "loop"
    /\ ub_scene <= 18
    /\ SceneFailures(ub_outcome) < MaxSceneFailures
    /\ ub_attempts' = Append(ub_attempts, ub_scene)
    /\ ub_outcome' = DictSet(ub_outcome, ub_scene, "raise")
    /\ generated_images' = DictSet(generated_images, ub_scene, None)
    /\ ub_scene' = ub_scene + 1
    /\ UNCHANGED <<images_before, ub_sleeps, temp_files, ubpc, notUiBatch>>

\* One iteration in which generate_scene_image raises: st.error and continue.
UiBatchSceneRaised ==
    /\ ubpc = "loop"
    /\ ub_scene <= 18
    /\ SceneFailures(ub_outcome) < MaxSceneFailures
    /\ ub_attempts' = Append(ub_attempts, ub_scene)
    /\ ub_outcome' = DictSet(ub_outcome, ub_scene, "raise")
    /\ ub_scene' = ub_scene + 1
    /\ UNCHANGED <<generated_images, images_before, ub_sleeps, temp_files, ubpc,
                   notUiBatch>>

\* One iteration in which generate_scene_image returns, a path or None: the
\* entry of the scene is set, and the handler sleeps unless the scene is the
\* last one.
UiBatchSceneReturned ==
    /\ ubpc = "loop"
    /\ ub_scene <= 18
    /\ \E outcome \in ImageOutcomes \ {"raise"} :
        /\ outcome = "no_image" => SceneFailures(ub_outcome) < MaxSceneFailures
        /\ ub_outcome' = DictSet(ub_outcome, ub_scene, outcome)
        /\ generated_images' =
              DictSet(generated_images, ub_scene,
                      IF outcome = "image"
                      THEN output_filename("generated_images", ub_scene)
                      ELSE None)
    /\ ub_attempts' = Append(ub_attempts, ub_scene)
    /\ ub_sleeps' = IF ub_scene < 18 THEN ub_sleeps + 1 ELSE ub_sleeps
    /\ ub_scene' = ub_scene + 1
    /\ UNCHANGED <<images_before, temp_files, ubpc, notUiBatch>>

\* After the loop the temporary file is removed.
UiBatchEnd ==
    /\ ubpc = "loop"
    /\ ub_scene > 18
    /\ temp_files' = temp_files \ {temp_scenes_all}
    /\ ubpc' = "done"
    /\ UNCHANGED <<generated_images, images_before, ub_scene, ub_outcome,
                   ub_attempts, ub_sleeps, notUiBatch>>

UiBatchNext ==
    \/ UiBatchStart \/ UiBatchSetupFails \/ UiBatchSceneRaised
    \/ UiBatchSceneReturned \/ UiBatchEnd

(***************************************************************************)
(* The session state: initialize_session_state of streamlit_app.py and     *)
(* SessionStateManager of streamlit_utils.py                               *)
(***************************************************************************)
\* The defaults of initialize_session_state, in the order of its tests.
AppDefaults ==
    << <<"scenes_data", NoData>>,
       <<"current_scene", 1>>,
       <<"generated_images", EmptyDict>>,
       <<"scene_creation_complete", FALSE>> >>

\* The defaults dictionary init_session_state builds when it is given none.
ManagerDefaults ==
    << <<"user_data", EmptyDict>>,
       <<"project_data", EmptyDict>>,
       <<"current_step", 0>>,
       <<"temp_files", <<>> >>,
       <<"error_log", <<>> >>,
       <<"settings", [debug_mode |-> FALSE, auto_cleanup |-> TRUE, language |-> "ko"]>> >>

\* st.session_state[key] = value, whether the key is there or not.
SetDefault_overwrite(s, k, val) == DictSet(s, k, val)

\* if key not in st.session_state: st.session_state[key] = value
SetDefault(s, k, val) == IF k \in DOMAIN s THEN s ELSE DictSet(s, k, val)

RECURSIVE ApplyDefaults(_, _, _)
\* for key, value in defaults.items(), from item i on.
ApplyDefaults(s, items, i) ==
    IF i > Len(items) THEN s
    ELSE ApplyDefaults(SetDefault(s, items[i][1], items[i][2]), items, i + 1)

\* del st.session_state[key]
DictDel(d, k) == [x \in DOMAIN d \ {k} |-> d[x]]

\* What the handlers of the pages store: key -> the values they set.
StoredValues ==
    [current_scene |-> {2, 18},
     scene_creation_complete |-> {TRUE},
     current_step |-> {1}]

\* dict.update on the settings dictionary
UpdatedSettings(d) == [d EXCEPT !.language = "en"]

SessionIdle ==
    /\ session_state = EmptyDict
    /\ last_op = "none"
    /\ call_outcome = NoResult
    /\ call_result = NoResult
    /\ sspc = "idle"

\* A new session: no key is set.
SessionInit ==
    /\ session_state = EmptyDict
    /\ last_op = "none"
    /\ call_outcome = NoResult
    /\ call_result = NoResult
    /\ sspc = "running"

\* initialize_session_state()
AppInitialize ==
    /\ sspc = "running"
    /\ session_state' = ApplyDefaults(session_state, AppDefaults, 1)
    /\ last_op' = "initialize_session_state"
    /\ UNCHANGED <<sspc, call_outcome, call_result, notSession>>

\* SessionStateManager.init_session_state()
ManagerInit ==
    /\ sspc = "running"
    /\ session_state' = ApplyDefaults(session_state, ManagerDefaults, 1)
    /\ last_op' = "init_session_state"
    /\ UNCHANGED <<sspc, call_outcome, call_result, notSession>>

\* SessionStateManager.set_value(key, value), or an assignment of a handler.
SetValue ==
    /\ sspc = "running"
    /\ \E key \in DOMAIN StoredValues :
         \E value \in StoredValues[key] :
            session_state' = DictSet(session_state, key, value)
    /\ last_op' = "set_value"
    /\ UNCHANGED <<sspc, call_outcome, call_result, notSession>>

\* SessionStateManager.update_value("settings", updates)
UpdateValue ==
    /\ sspc = "running"
    /\ session_state' =
          IF "settings" \notin DOMAIN session_state
          THEN DictSet(session_state, "settings", [language |-> "en"])
          ELSE DictSet(session_state, "settings",
                       UpdatedSettings(session_state["settings"]))
    /\ last_op' = "update_value"
    /\ UNCHANGED <<sspc, call_outcome, call_result, notSession>>

\* SessionStateManager.clear_value(key)
ClearValue ==
    /\ sspc = "running"
    /\ \E key \in {"current_scene", "settings", "error_log"} :
         session_state' = IF key \in DOMAIN session_state
                          THEN DictDel(session_state, key)
                          ELSE session_state
    /\ last_op' = "clear_value"
    /\ UNCHANGED <<sspc, call_outcome, call_result, notSession>>

\* SessionStateManager.reset_all()
ResetAll ==
    /\ sspc = "running"
    /\ session_state' = [x \in {} |-> None]
    /\ last_op' = "reset_all"
    /\ UNCHANGED <<sspc, call_outcome, call_result, notSession>>

SessionNext ==
    \/ AppInitialize \/ ManagerInit \/ SetValue
    \/ UpdateValue \/ ClearValue \/ ResetAll

(***************************************************************************)
(* streamlit_utils.py: handle_errors                                       *)
(***************************************************************************)
\* The operations under the decorator and how one call of them may end: it
\* returns a path, or an Exception leaves it.
WrappedOutcomes ==
    {[kind |-> "return", func |-> f, value |-> f \o ".out"] :
        f \in {"create_temp_dir", "save_uploaded_file"}}
    \cup {[kind |-> "raise", func |-> f, error |-> e] :
        f \in {"create_temp_dir", "save_uploaded_file"},
        e \in {"Permission denied", "No space left on device"}}

\* The record appended to the error log; its timestamp and traceback are
\* left out.
ErrorRecord(func, error) == [function |-> func, error |-> error]

\* The log holds the last error only.
LogAppend_reset(log, rec) == <<rec>>

\* st.session_state.error_log.append(record)
LogAppend(log, rec) == Append(log, rec)

\* wrapper(*args, **kwargs): the session state it leaves and what it returns.
handle_errors(s, outcome) ==
    IF outcome.kind = "return"
    THEN [session |-> s, result |-> Return(outcome.value)]
    ELSE LET s1 == IF "error_log" \notin DOMAIN s
                   THEN DictSet(s, "error_log", <<>>)
                   ELSE s
         IN  [session |-> DictSet(s1, "error_log",
                                  LogAppend(s1["error_log"],
                                            ErrorRecord(outcome.func, outcome.error))),
              result |-> Return(None)]

\* One call of an operation under handle_errors.
WrappedCall ==
    /\ sspc = "running"
    /\ \E outcome \in WrappedOutcomes :
        /\ outcome.kind = "raise" =>
              ("error_log" \in DOMAIN session_state =>
                  Len(session_state["error_log"]) < MaxErrors)
        /\ call_outcome' = outcome
        /\ session_state' = handle_errors(session_state, outcome).session
        /\ call_result' = handle_errors(session_state, outcome).result
    /\ last_op' = "handle_errors"
    /\ UNCHANGED <<sspc, notSession>>

ErrorsNext == WrappedCall \/ ManagerInit \/ ClearValue \/ ResetAll

(***************************************************************************)
(* streamlit_utils.py: FileManager.cleanup_temp_dir                        *)
(***************************************************************************)
\* DEFAULT_TEMP_DIR = "temp", character by character.
DEFAULT_TEMP_DIR == <<"t", "e", "m", "p">>

\* sub in s, for two strings
Contains(sub, s) ==
    \E i \in 1..(Len(s) - Len(sub) + 1) : SubSeq(s, i, i + Len(sub) - 1) = sub

\* p is q or lies below q.
AtOrBelow(p, q) ==
    \/ p = q
    \/ Len(p) > Len(q) /\ SubSeq(p, 1, Len(q)) = q /\ p[Len(q) + 1] = "/"

\* The directories of the model: temp/a, temp/a/b, templates, data,
\* data/temp_old and attempts.
CleanupPaths ==
    {<<"t", "e", "m", "p", "/", "a">>,
     <<"t", "e", "m", "p", "/", "a", "/", "b">>,
     <<"t", "e", "m", "p", "l", "a", "t", "e", "s">>,
     <<"d", "a", "t", "a">>,
     <<"d", "a", "t", "a", "/", "t", "e", "m", "p", "_", "o", "l", "d">>,
     <<"a", "t", "t", "e", "m", "p", "t", "s">>}

\* The safety test that lets the call go on to shutil.rmtree.
SafetyCheckPasses(path, forced) ==
    ~(~forced /\ ~Contains(DEFAULT_TEMP_DIR, path))

\* shutil.rmtree(temp_path): the directory and everything below it go.
rmtree(dirs, path) == {d \in dirs : ~AtOrBelow(d, path)}

CleanupIdle ==
    /\ fs_dirs = {}
    /\ dirs_before = {}
    /\ temp_path = <<>>
    /\ force = FALSE
    /\ cleanup_result = FALSE
    /\ kpc = "idle"

\* A directory exists only with the directories above it among the paths.
CleanupInit ==
    /\ fs_dirs \in {D \in SUBSET CleanupPaths :
                      \A d \in D : \A q \in CleanupPaths : AtOrBelow(d, q) => q \in D}
    /\ dirs_before = fs_dirs
    /\ temp_path \in CleanupPaths
    /\ force \in BOOLEAN
    /\ cleanup_result = FALSE
    /\ kpc = "call"

\* The path does not exist, or the safety test fails: False, nothing removed.
CleanupRefuses ==
    /\ kpc = "call"
    /\ temp_path \notin fs_dirs \/ ~SafetyCheckPasses(temp_path, force)
    /\ cleanup_result' = FALSE
    /\ kpc' = "returned"
    /\ UNCHANGED <<fs_dirs, dirs_before, temp_path, force, notCleanup>>

\* shutil.rmtree removes the tree and the call returns True, or it raises
\* and the call returns False.
CleanupRemoves ==
    /\ kpc = "call"
    /\ temp_path \in fs_dirs
    /\ SafetyCheckPasses(temp_path, force)
    /\ \/ /\ fs_dirs' = rmtree(fs_dirs, temp_path)
          /\ cleanup_result' = TRUE
       \/ /\ fs_dirs' = fs_dirs
          /\ cleanup_result' = FALSE
    /\ kpc' = "returned"
    /\ UNCHANGED <<dirs_before, temp_path, force, notCleanup>>

CleanupNext == CleanupRefuses \/ CleanupRemoves

(***************************************************************************)
(* streamlit_app.py: the all-18-scenes button in two sessions of one       *)
(* server process, which share the working directory                       *)
(***************************************************************************)
Sessions == {"A", "B"}

\* st.session_state.scenes_data of a session: each session has its own.
ScenesOf(s) == "scenes of session " \o s

\* No file of that name exists.
NoFile == "no file"

\* save_scenes_to_json(scenes_data, "temp_scenes_all.json"): the file name is
\* the same in every session, and open(..., "w") replaces the content.
WriteTemp(file, content) == content

SessionsIdle ==
    /\ shared_temp = NoFile
    /\ sess_scene = [s \in Sessions |-> 0]
    /\ read_foreign = [s \in Sessions |-> {}]
    /\ read_missing = [s \in Sessions |-> {}]
    /\ sess_pc = [s \in Sessions |-> "idle"]

\* Both sessions hold scenes and show the button.
SessionsInit ==
    /\ shared_temp = NoFile
    /\ sess_scene = [s \in Sessions |-> 0]
    /\ read_foreign = [s \in Sessions |-> {}]
    /\ read_missing = [s \in Sessions |-> {}]
    /\ sess_pc = [s \in Sessions |-> "page"]

\* The button is clicked in session s: the temporary file is saved and the
\* loop entered.
SessClick(s) ==
    /\ sess_pc[s] = "page"
    /\ shared_temp' = WriteTemp(shared_temp, ScenesOf(s))
    /\ sess_scene' = [sess_scene EXCEPT ![s] = 1]
    /\ sess_pc' = [sess_pc EXCEPT ![s] = "loop"]
    /\ UNCHANGED <<read_foreign, read_missing, notSessions>>

\* One iteration of session s: generate_scene_image loads the temporary
\* file again; a file that is not there raises, which the inner except
\* branch reports before the loop goes on.
SessScene(s) ==
    /\ sess_pc[s] = "loop"
    /\ sess_scene[s] <= 18
    /\ read_missing' =
          IF shared_temp = NoFile
          THEN [read_missing EXCEPT ![s] = @ \cup {sess_scene[s]}]
          ELSE read_missing
    /\ read_foreign' =
          IF shared_temp \notin {NoFile, ScenesOf(s)}
          THEN [read_foreign EXCEPT ![s] = @ \cup {sess_scene[s]}]
          ELSE read_foreign
    /\ sess_scene' = [sess_scene EXCEPT ![s] = @ + 1]
    /\ UNCHANGED <<shared_temp, sess_pc, notSessions>>

\* After the loop session s removes the temporary file if it exists.
SessEnd(s) ==
    /\ sess_pc[s] = "loop"
    /\ sess_scene[s] > 18
    /\ shared_temp' = NoFile
    /\ sess_pc' = [sess_pc EXCEPT ![s] = "done"]
    /\ UNCHANGED <<sess_scene, read_foreign, read_missing, notSessions>>

SessionsNext ==
    \E s \in Sessions : SessClick(s) \/ SessScene(s) \/ SessEnd(s)

(***************************************************************************)
(* streamlit_app.py: creating scenes again, the single-image button and    *)
(* what the gallery then pairs                                             *)
(***************************************************************************)
\* The narratives a user submits; each gives its own 18 scenes.
Narratives == {"narrative a", "narrative b"}

\* The scenes picked in the select box of the model.
PickedScenes == {1, 2, 18}

GalleryIdle ==
    /\ held_scenes = None
    /\ shown_images = EmptyDict
    /\ image_files = EmptyDict
    /\ gal_clicks = 0
    /\ galpc = "idle"

\* The session after initialize_session_state.
GalleryInit ==
    /\ held_scenes = None
    /\ shown_images = EmptyDict
    /\ image_files = EmptyDict
    /\ gal_clicks = 0
    /\ galpc = "page"

\* The scene-creation button: on success scenes_data is replaced and
\* nothing else of the session is touched; on failure nothing changes.
GalleryCreateScenes ==
    /\ galpc = "page"
    /\ gal_clicks < MaxClicks
    /\ gal_clicks' = gal_clicks + 1
    /\ \E narrative \in Narratives, ok \in BOOLEAN :
        held_scenes' = IF ok THEN narrative ELSE held_scenes
    /\ UNCHANGED <<shown_images, image_files, galpc, notGallery>>

\* The single-image button, shown when scenes_data is set: the image of the
\* picked scene is generated from the scenes held now and written to
\* generated_images/scene_<N>.png, and what generate_scene_image returned is
\* stored; when it raises nothing is stored.
GalleryGenerateOne ==
    /\ galpc = "page"
    /\ held_scenes # None
    /\ gal_clicks < MaxClicks
    /\ gal_clicks' = gal_clicks + 1
    /\ \E n \in PickedScenes, outcome \in ImageOutcomes :
        LET path == output_filename("generated_images", n)
        IN  \/ /\ outcome = "image"
               /\ image_files' = DictSet(image_files, path, held_scenes)
               /\ shown_images' = DictSet(shown_images, n, path)
            \/ /\ outcome = "no_image"
               /\ image_files' = image_files
               /\ shown_images' = DictSet(shown_images, n, None)
            \/ /\ outcome = "raise"
               /\ UNCHANGED <<image_files, shown_images>>
    /\ UNCHANGED <<held_scenes, galpc, notGallery>>

GalleryNext == GalleryCreateScenes \/ GalleryGenerateOne

(***************************************************************************)
(* imgCreator.py: generate_all_scenes_with_rate_limit on a scenes file in  *)
(* which one scene is malformed                                            *)
(***************************************************************************)
\* The scenes that are malformed in the files of the model.
MalformedAt == {1, 9, 18}

\* The ways one scene of a file is malformed: its entry is missing, or its
\* entry lacks the script or the main_keyword field.
Defects == {"missing", "no script", "no main_keyword"}

\* The scenes mapping of a file whose scene b has the defect.
MalformedScenes(b, defect) ==
    [k \in {scene_key(i) : i \in 1..18 \ (IF defect = "missing" THEN {b} ELSE {})} |->
        IF k # scene_key(b) THEN FileScene(CHOOSE i \in 1..18 : scene_key(i) = k)
        ELSE IF defect = "no script" THEN [main_keyword |-> "keyword"]
        ELSE [script |-> "script"]]

\* scene_data['script'] and scene_data['main_keyword'] can be read.
HasFields(scene_data) == {"script", "main_keyword"} \subseteq DOMAIN scene_data

\* create_all_scenes_context reads the script and the main_keyword of every
\* entry of the mapping: a KeyError leaves it when an entry lacks one.
ContextRaises(scenes) == \E k \in DOMAIN scenes : ~HasFields(scenes[k])

MalformedIdle ==
    /\ mal_scenes = EmptyDict
    /\ mal_scene = 0
    /\ mal_results = EmptyDict
    /\ mal_calls = {}
    /\ mal_failed = 0
    /\ malpc = "idle"

MalformedInit ==
    /\ mal_scenes \in {MalformedScenes(b, defect) : b \in MalformedAt, defect \in Defects}
    /\ mal_scene = 0
    /\ mal_results = EmptyDict
    /\ mal_calls = {}
    /\ mal_failed = 0
    /\ malpc = "call"

\* makedirs, results = {}, the file is loaded, the context is built and the
\* loop entered.
MalStart ==
    /\ malpc = "call"
    /\ ~ContextRaises(mal_scenes)
    /\ mal_scene' = 1
    /\ malpc' = "loop"
    /\ UNCHANGED <<mal_scenes, mal_results, mal_calls, mal_failed, notMalformed>>

\* create_all_scenes_context raises ahead of the loop, outside every try
\* block: the exception leaves the function.
MalContextRaises ==
    /\ malpc = "call"
    /\ ContextRaises(mal_scenes)
    /\ malpc' = "raised"
    /\ UNCHANGED <<mal_scenes, mal_scene, mal_results, mal_calls, mal_failed,
                   notMalformed>>

\* One iteration whose scene cannot be read: the KeyError is caught by the
\* except clause, which records None.
MalSceneKeyError ==
    /\ malpc = "loop"
    /\ mal_scene < 19
    /\ \/ scene_key(mal_scene) \notin DOMAIN mal_scenes
       \/ /\ scene_key(mal_scene) \in DOMAIN mal_scenes
          /\ ~HasFields(mal_scenes[scene_key(mal_scene)])
    /\ mal_results' = DictSet(mal_results, mal_scene, None)
    /\ mal_scene' = mal_scene + 1
    /\ UNCHANGED <<mal_scenes, mal_calls, mal_failed, malpc, notMalformed>>

\* One iteration whose scene is read and passed to generate_image, which
\* returns a path or None, or raises into the except clause.
MalSceneCalled ==
    /\ malpc = "loop"
    /\ mal_scene < 19
    /\ scene_key(mal_scene) \in DOMAIN mal_scenes
    /\ HasFields(mal_scenes[scene_key(mal_scene)])
    /\ mal_calls' = mal_calls \cup {mal_scene}
    /\ \E outcome \in ImageOutcomes :
        /\ outcome # "image" => mal_failed < MaxSceneFailures
        /\ mal_failed' = IF outcome = "image" THEN mal_failed ELSE mal_failed + 1
        /\ mal_results' = DictSet(mal_results, mal_scene,
                                  IF outcome = "image"
                                  THEN output_filename("images", mal_scene)
                                  ELSE None)
    /\ mal_scene' = mal_scene + 1
    /\ UNCHANGED <<mal_scenes, malpc, notMalformed>>

\* return results
MalReturn ==
    /\ malpc = "loop"
    /\ mal_scene = 19
    /\ malpc' = "returned"
    /\ UNCHANGED <<mal_scenes, mal_scene, mal_results, mal_calls, mal_failed,
                   notMalformed>>

MalformedNext ==
    \/ MalStart \/ MalContextRaises \/ MalSceneKeyError
    \/ MalSceneCalled \/ MalReturn

(***************************************************************************)
(* streamlit_image_handler.py: example_usage, the first pass followed by   *)
(* the retry pass and the merge of the retried results                     *)
(***************************************************************************)
\* The results list of a first pass over n prompts that failed at the
\* indices of F: a saved path, or None, per prompt.
FirstPass(n, F) ==
    [i \in 1..n |-> IF (i - 1) \in F THEN None
                    ELSE SavedImage("first", "prompt_" \o ToString(i - 1))]

\* The indices whose result is None.
NoneAt(res) == {i - 1 : i \in {j \in 1..Len(res) : res[j] = None}}

\* A merge that keeps only the retried entries.
MergeInto_only(res, retried) ==
    [i \in 1..Len(res) |->
        IF (i - 1) \in DOMAIN retried THEN retried[i - 1] ELSE None]

\* for idx, result in retry_results.items(): results[idx] = result
MergeInto(res, retried) ==
    [i \in 1..Len(res) |->
        IF (i - 1) \in DOMAIN retried THEN retried[i - 1] ELSE res[i]]

\* What the steps of example_usage outside the retry pass leave alone.
notRetryNorMerge ==
    <<valVars, colVars, batchVars, multiVars, sheetVars, flightVars,
      summaryVars, uiVars, sceneimgVars, uibatchVars, sessionVars,
      cleanupVars, sessionsVars, galleryVars, malformedVars, settingsVars>>

MergeIdle ==
    /\ first_results = <<>>
    /\ merged_results = <<>>
    /\ mgpc = "idle"

\* create_multiple_images_with_progress has returned results.
MergeInit ==
    /\ first_results \in {FirstPass(n, F) : n \in 0..MaxPrompts,
                                           F \in SUBSET (0..(MaxPrompts - 1))}
    /\ merged_results = first_results
    /\ mgpc = "first pass done"

\* failed_prompts is built from the None results and is not empty:
\* retry_failed_images is called (with any ceiling; example_usage leaves it
\* at the default).
ExampleCallsRetry ==
    /\ mgpc = "first pass done"
    /\ NoneAt(merged_results) # {}
    /\ failed_prompts' = FailedList(NoneAt(merged_results), 0)
    /\ failed0' = failed_prompts'
    /\ max_retries' \in 0..MaxRetries
    /\ rpc' = "call"
    /\ mgpc' = "retrying"
    /\ UNCHANGED <<retry_num, remaining_failures, rpos, retry_results, revents,
                   first_results, merged_results, notRetryNorMerge>>

\* if failed_prompts: is false, nothing is retried.
ExampleSkipsRetry ==
    /\ mgpc = "first pass done"
    /\ NoneAt(merged_results) = {}
    /\ mgpc' = "summary"
    /\ UNCHANGED <<first_results, merged_results, notMerge>>

\* retry_failed_images has returned: its results are put into the list.
ExampleMerges ==
    /\ mgpc = "retrying"
    /\ rpc = "done"
    /\ merged_results' = MergeInto(merged_results, retry_results)
    /\ mgpc' = "summary"
    /\ UNCHANGED <<first_results, notMerge>>

MergeNext ==
    \/ ExampleCallsRetry \/ ExampleSkipsRetry \/ ExampleMerges
    \/ RetryStart \/ RetryRoundHead \/ RetryItem \/ RetryRoundEnd \/ RetryReturn

(***************************************************************************)
(* streamlit_utils.py: SettingsManager, on the session state of            *)
(* SessionStateManager                                                     *)
(***************************************************************************)
\* SettingsManager.DEFAULT_SETTINGS as the class body defines it.
DEFAULT_SETTINGS ==
    [debug_mode |-> FALSE, auto_cleanup |-> TRUE, language |-> "ko",
     theme |-> "light", max_retries |-> 3, timeout |-> 30, log_level |-> "INFO"]

\* The updates passed to update_settings.
SettingsUpdates ==
    {[language |-> "en"], [max_retries |-> 5],
     [debug_mode |-> TRUE, log_level |-> "DEBUG"]}

\* d.update(u)
DictUpdate(d, u) ==
    [k \in DOMAIN d \cup DOMAIN u |-> IF k \in DOMAIN u THEN u[k] ELSE d[k]]

\* What the calls of SettingsManager leave alone.
notSessionNorSettings ==
    <<valVars, colVars, batchVars, multiVars, retryVars, sheetVars, flightVars,
      summaryVars, uiVars, sceneimgVars, uibatchVars, cleanupVars,
      sessionsVars, galleryVars, malformedVars, mergeVars>>

\* The class attribute as the import of the module leaves it; no call has
\* returned.
SettingsIdle ==
    /\ class_defaults = DEFAULT_SETTINGS
    /\ settings_result = NoData

\* get_settings(): the settings key is set to a copy of DEFAULT_SETTINGS
\* when it is absent, and the stored dictionary is returned.
GetSettings ==
    /\ sspc = "running"
    /\ session_state' = SetDefault(session_state, "settings", class_defaults)
    /\ settings_result' = session_state'["settings"]
    /\ last_op' = "get_settings"
    /\ UNCHANGED <<sspc, call_outcome, call_result, class_defaults,
                   notSessionNorSettings>>

\* update_settings(updates): the dictionary of get_settings is updated and
\* stored; it is the session's own dictionary, a copy of the class's.
UpdateSettings ==
    /\ sspc = "running"
    /\ \E updates \in SettingsUpdates :
          LET got == SetDefault(session_state, "settings", class_defaults)
          IN  session_state' =
                  DictSet(got, "settings", DictUpdate(got["settings"], updates))
    /\ last_op' = "update_settings"
    /\ UNCHANGED <<sspc, call_outcome, call_result, class_defaults,
                   settings_result, notSessionNorSettings>>

\* reset_settings(): a copy of DEFAULT_SETTINGS is stored.
ResetSettings ==
    /\ sspc = "running"
    /\ session_state' = DictSet(session_state, "settings", class_defaults)
    /\ last_op' = "reset_settings"
    /\ UNCHANGED <<sspc, call_outcome, call_result, class_defaults,
                   settings_result, notSessionNorSettings>>

\* The calls on the settings of one session, with the initialisation of
\* initialize_app and the reset of the session state.
SettingsNext ==
    \/ ManagerInit \/ GetSettings \/ UpdateSettings \/ ResetSettings
    \/ ResetAll

(***************************************************************************)
(* Specifications                                                          *)
(***************************************************************************)
\* Every component but the named one is idle.
IdleBut(c) ==
    /\ c # "val" => ValIdle
    /\ c # "col" => ColIdle
    /\ c # "batch" => BatchIdle
    /\ c # "multi" => MultiIdle
    /\ c # "retry" => RetryIdle
    /\ c # "sheet" => SheetIdle
    /\ c # "flight" => FlightIdle
    /\ c # "summary" => SummaryIdle
    /\ c # "ui" => UiIdle
    /\ c # "sceneimg" => SceneImageIdle
    /\ c # "uibatch" => UiBatchIdle
    /\ c # "session" => SessionIdle
    /\ c # "cleanup" => CleanupIdle
    /\ c # "sessions" => SessionsIdle
    /\ c # "gallery" => GalleryIdle
    /\ c # "malformed" => MalformedIdle
    /\ c # "merge" => MergeIdle
    /\ c # "settings" => SettingsIdle

InitValidate == ValInit /\ IdleBut("val")
InitCol == ColInit /\ IdleBut("col")
InitBatch == BatchInit /\ IdleBut("batch")
InitMulti == MultiInit /\ IdleBut("multi")
InitRetry == RetryInit /\ IdleBut("retry")
InitSheet == SheetInit /\ IdleBut("sheet")
InitFlight == FlightInit /\ IdleBut("flight")
InitSummary == SummaryInit /\ IdleBut("summary")
InitUi == UiInit /\ IdleBut("ui")
InitSceneImage == SceneImageInit /\ IdleBut("sceneimg")
InitUiBatch == UiBatchInit /\ IdleBut("uibatch")
InitSession == SessionInit /\ IdleBut("session")
InitCleanup == CleanupInit /\ IdleBut("cleanup")
InitSessions == SessionsInit /\ IdleBut("sessions")
InitGallery == GalleryInit /\ IdleBut("gallery")
InitMalformed == MalformedInit /\ IdleBut("malformed")
InitMerge == MergeInit /\ IdleBut("merge")

SpecValidate == InitValidate /\ [][ValNext]_vars
SpecCol == InitCol /\ [][ColNext]_vars
SpecBatch == InitBatch /\ [][BatchNext]_vars
SpecMulti == InitMulti /\ [][MultiNext]_vars
\* The retry pass is one thread running to its return: a step that can be
\* taken is taken.
SpecRetry == InitRetry /\ [][RetryNext]_vars /\ WF_vars(RetryNext)
SpecSheet == InitSheet /\ [][SheetNext]_vars
SpecFlight == InitFlight /\ [][FlightNext]_vars
SpecSummary == InitSummary /\ [][SummaryNext]_vars
SpecUi == InitUi /\ [][UiNext]_vars
SpecSceneImage == InitSceneImage /\ [][SceneImageNext]_vars
SpecUiBatch == InitUiBatch /\ [][UiBatchNext]_vars
SpecSession == InitSession /\ [][SessionNext]_vars
SpecErrors == InitSession /\ [][ErrorsNext]_vars
SpecSettings == InitSession /\ [][SettingsNext]_vars
SpecCleanup == InitCleanup /\ [][CleanupNext]_vars
SpecSessions == InitSessions /\ [][SessionsNext]_vars
SpecGallery == InitGallery /\ [][GalleryNext]_vars
SpecMalformed == InitMalformed /\ [][MalformedNext]_vars
SpecMerge == InitMerge /\ [][MergeNext]_vars

Init == \/ InitValidate \/ InitCol \/ InitBatch \/ InitMulti \/ InitRetry
       \/ InitSheet \/ InitFlight \/ InitSummary \/ InitUi \/ InitSceneImage
       \/ InitUiBatch \/ InitSession \/ InitCleanup \/ InitSessions
       \/ InitGallery \/ InitMalformed \/ InitMerge
Next == \/ ValNext \/ ColNext \/ BatchNext \/ MultiNext \/ RetryNext
       \/ SheetNext \/ FlightNext \/ SummaryNext \/ UiNext \/ SceneImageNext
       \/ UiBatchNext \/ SessionNext \/ CleanupNext \/ SessionsNext
       \/ GalleryNext \/ MalformedNext \/ MergeNext
       \/ ErrorsNext \/ SettingsNext
Spec == Init /\ [][Next]_vars

(***************************************************************************)
(* Claims                                                                  *)
(***************************************************************************)
\* C1: a candidate mapping whose number of keys is not 18 is rejected with a
\* ValueError, and a mapping whose keys are exactly scene_1..scene_18 is
\* returned unchanged (same keys, same values).
C1_CountAndAccept ==
    vpc = "done" =>
        /\ Cardinality(DOMAIN v) # 18 => vout.kind = "ValueError"
        /\ DOMAIN v = RequiredKeys => vout = [kind |-> "return", value |-> v]

\* A mapping of exactly scene_1..scene_18 has been validated and returned.
C1_Witness ==
    /\ vpc = "done"
    /\ DOMAIN v = RequiredKeys
    /\ vout.kind = "return"
    /\ vout.value = v

\* C2: a mapping of exactly 18 keys in which one of scene_1..scene_18 is
\* absent is rejected with the missing-required-scene error; no mapping of
\* size 18 with a gap is accepted.
C2_GapRejected ==
    (vpc = "done" /\ Cardinality(DOMAIN v) = 18 /\ DOMAIN v # RequiredKeys) =>
        /\ vout.kind = "ValueError"
        /\ \E i \in 1..18 :
              /\ scene_key(i) \notin DOMAIN v
              /\ vout.msg = "Missing required scene: " \o scene_key(i)

\* A size-18 mapping that lacks scene_7 and holds an extra key was rejected.
C2_Witness ==
    /\ vpc = "done"
    /\ Cardinality(DOMAIN v) = 18
    /\ "scene_7" \notin DOMAIN v
    /\ vout = ValueError("Missing required scene: scene_7")

\* C3: whichever scenes' image calls raise, the batch is not aborted: all 18
\* scenes are attempted, no exception reaches the caller, and the returned
\* mapping has exactly the keys 1..18, None for exactly the scenes whose call
\* gave no image and the scene's file path for the others.
C3_BatchNotAborted ==
    /\ bpc # "raised"
    /\ bpc = "returned" =>
          /\ DOMAIN results = 1..18
          /\ DOMAIN boutcome = 1..18
          /\ \A n \in 1..18 :
                /\ boutcome[n] = "raise" => results[n] = None
                /\ results[n] = None <=> boutcome[n] # "image"
                /\ boutcome[n] = "image" => results[n] = output_filename("images", n)

\* The batch returned after the image calls of scenes 2 and 18 raised.
C3_Witness ==
    /\ bpc = "returned"
    /\ boutcome[2] = "raise" /\ boutcome[18] = "raise"
    /\ results[2] = None /\ results[3] = "images/scene_3.png"

\* C4 (as claimed): a run of 18 attempts contains exactly 17 sleeps of 12
\* seconds, one between every two consecutive attempts, whichever attempts
\* fail.
C4_SeventeenDelays ==
    bpc = "returned" =>
        /\ Len(Attempts(bevents)) = 18
        /\ Len(Sleeps(bevents)) = 17
        /\ \A j \in 1..(Len(bevents) - 1) :
              bevents[j].e = "generate_image" => bevents[j + 1] = SleepEvent(12)

\* C5: with N prompts the handler makes exactly N-1 rate-limit waits, one
\* right before each of the calls 2..N and none before call 1 or after call
\* N, whatever the calls' outcomes (no wait when N = 1), and returns one
\* entry per prompt in prompt order.
C5_WaitsBetweenPrompts ==
    mpc = "returned" =>
        LET N == Len(prompts)
        IN  /\ Len(ImageCalls(mevents)) = N
            /\ Len(Waits(mevents)) = (IF N = 0 THEN 0 ELSE N - 1)
            /\ Len(mevents) = (IF N = 0 THEN 0 ELSE 2 * N - 1)
            /\ \A j \in 1..Len(mevents) :
                  IF j % 2 = 1
                  THEN mevents[j] = SingleImageEvent((j - 1) \div 2)
                  ELSE mevents[j] = RateLimitEvent(12)
            /\ Len(mresults) = N
            /\ \A j \in 1..N : mresults[j] \in {None, SavedImage("out", prompts[j])}

\* Three prompts were run, the second of them failed, and two waits were made.
C5_Witness ==
    /\ mpc = "returned"
    /\ Len(prompts) = 3
    /\ mresults[1] # None /\ mresults[2] = None /\ mresults[3] # None
    /\ prompts[1] # prompts[3]
    /\ Len(Waits(mevents)) = 2

\* The rounds in which a retry was made.
RoundsRun == {revents[j].round : j \in {k \in 1..Len(revents) : revents[k].e = "create_single_image"}}
\* The indices passed in as failed.
FailedIdx == {failed0[j][1] : j \in 1..Len(failed0)}
\* The positions of the retries of index i in round r.
RetriesOf(i, r) ==
    {j \in 1..Len(revents) :
        revents[j].e = "create_single_image" /\ revents[j].idx = i /\ revents[j].round = r}
\* The indices that failed in every round before round r.
StillFailing(r) ==
    {i \in FailedIdx : \A q \in 0..(r - 1) : \A j \in RetriesOf(i, q) : ~revents[j].ok}

C6_Rounds ==
    rpc = "done" =>
        LET n == Cardinality(RoundsRun)
        IN  /\ RoundsRun = 0..(n - 1)
            /\ n <= max_retries
            /\ \A r \in 0..(n - 1) :
                  /\ StillFailing(r) # {}
                  /\ \A i \in FailedIdx :
                        Cardinality(RetriesOf(i, r)) = (IF i \in StillFailing(r) THEN 1 ELSE 0)
            /\ StillFailing(n) # {} => n = max_retries

C7_OnlyFailedSubset ==
    \A j \in 1..Len(revents) :
        revents[j].e = "create_single_image" =>
            /\ revents[j].idx \in FailedIdx
            /\ \A k \in 1..(j - 1) :
                  (revents[k].e = "create_single_image" /\ revents[k].idx = revents[j].idx)
                      => ~revents[k].ok

\* Of two failed items one succeeded in the first round and the other was
\* tried again in the second round.
C7_Witness ==
    /\ Len(failed0) = 2
    /\ \E i \in FailedIdx, m \in FailedIdx :
          /\ i # m
          /\ \E j \in RetriesOf(i, 0) : revents[j].ok
          /\ RetriesOf(m, 1) # {}
          /\ RetriesOf(i, 1) = {}

\* C8 (as claimed): a rate-limit wait lies between every two consecutive
\* retries, whatever the earlier retries' outcomes.
C8_WaitBetweenRetries ==
    \A j \in 1..(Len(revents) - 1) :
        revents[j].e = "create_single_image" => revents[j + 1].e = "rate_limit"

\* C9: col_num_to_letter gives the bijective base-26 letters of every index
\* (1->A, 26->Z, 27->AA, 52->AZ, 53->BA), decoding the letters gives the
\* index back, and no smaller index has the same letters.
LetterValue(ch) == CHOOSE j \in 1..26 : Alphabet[j] = ch

RECURSIVE Decode(_)
Decode(s) ==
    IF s = <<>> THEN 0
    ELSE Decode(SubSeq(s, 1, Len(s) - 1)) * 26 + LetterValue(s[Len(s)])

C9_RoundTrip ==
    cpc = "done" =>
        /\ Len(cletters) >= 1
        /\ \A j \in 1..Len(cletters) : \E a \in 1..26 : cletters[j] = Alphabet[a]
        /\ Decode(cletters) = cn
        /\ \A m \in 1..(cn - 1) : col_num_to_letter(m) # cletters
        /\ cn = 1 => cletters = <<"A">>
        /\ cn = 26 => cletters = <<"Z">>
        /\ cn = 27 => cletters = <<"A", "A">>
        /\ cn = 52 => cletters = <<"A", "Z">>
        /\ cn = 53 => cletters = <<"B", "A">>

\* Index 53 has been converted to BA, a two-letter column.
C9_Witness == cpc = "done" /\ cn = 53 /\ cletters = <<"B", "A">>
\* C10: whatever the order in which the row workers complete, the list that
\* is written back and returned is in ascending row order and holds exactly
\* one entry for each row whose analysis succeeded.
C10_SortedByRow ==
    spc \in {"sorted", "written", "done"} =>
        /\ \A j \in 1..(Len(total_result) - 1) :
              total_result[j].row_index < total_result[j + 1].row_index
        /\ {total_result[j] : j \in 1..Len(total_result)}
              = {process_row(r) : r \in {x \in DOMAIN futures : futures[x] = "result"}}
        /\ \A u \in 1..Len(batch_updates) :
              /\ Len(batch_updates[u]) = Len(total_result)
              /\ \A j \in 1..Len(total_result) :
                    /\ batch_updates[u][j].range[3] = total_result[j].row_index
                    /\ batch_updates[u][j].values = total_result[j].result
        /\ spc = "done" => returned = total_result

\* Three rows completed in the order 2, 0, 1, row 1 failed, and the list of
\* rows 0 and 2 was written and returned.
C10_Witness ==
    /\ spc = "done"
    /\ completion_order = <<2, 0, 1>>
    /\ futures[1] = "exception"
    /\ returned = <<process_row(0), process_row(2)>>
    /\ Len(batch_updates) = 1
\* C11: the analysis results are written once at the end: nothing is written
\* while a row worker is still running (or a future is still to be
\* collected), all result cells go out in one batch update, and the update
\* is skipped when there are no results.
C11_WrittenOnceAtEnd ==
    /\ Len(batch_updates) <= 1
    /\ batch_updates # <<>> =>
          /\ \A r \in DOMAIN futures : futures[r] # "running"
          /\ Len(completion_order) = nrows
          /\ spc \in {"written", "done"}
          /\ total_result # <<>>
          /\ Len(batch_updates[1]) = Len(total_result)
    /\ (spc \in {"written", "done"} /\ total_result = <<>>) => batch_updates = <<>>

\* Two rows succeeded and were written in one batch update of two cells.
C11_Witness ==
    /\ spc = "done"
    /\ nrows = 2
    /\ Len(batch_updates) = 1
    /\ Len(batch_updates[1]) = 2

\* C15: the batch calls the image operation once per scene in the order
\* 1, 2, ..., 18: no scene is skipped, repeated or retried, and the function
\* returns after the 18th call.
C15_OncePerSceneInOrder ==
    LET calls == Attempts(bevents)
    IN  /\ \A j \in 1..Len(calls) : calls[j] = AttemptEvent(j)
        /\ bpc = "loop" => Len(calls) = scene_num - 1
        /\ bpc = "returned" => /\ Len(calls) = 18
                               /\ bevents[Len(bevents)] = AttemptEvent(18)

\* The batch returned after 18 calls although the call of scene 5 raised.
C15_Witness ==
    /\ bpc = "returned"
    /\ boutcome[5] = "raise"
    /\ Len(Attempts(bevents)) = 18

\* C18: a row whose analysis raises is left out of the results and every
\* other row is still analysed and kept; an error while expanding or
\* writing the sheet is caught, and the function still returns the full
\* sorted list.
C18_RowAndWriteErrorsIsolated ==
    /\ spc # "raised"
    /\ spc \in {"written", "done"} =>
          /\ DOMAIN futures = 0..(nrows - 1)
          /\ \A r \in DOMAIN futures :
                /\ futures[r] # "running"
                /\ futures[r] = "result"
                      <=> \E j \in 1..Len(total_result) : total_result[j] = process_row(r)
          /\ batch_updates # <<>> =>
                \A r \in DOMAIN futures :
                    futures[r] = "result"
                      <=> \E j \in 1..Len(batch_updates[1]) :
                             /\ batch_updates[1][j].range[3] = r + 2
                             /\ batch_updates[1][j].values = process_row(r).result
    /\ spc = "done" =>
          /\ returned = total_result
          /\ Len(returned) = Cardinality({r \in DOMAIN futures : futures[r] = "result"})
          /\ \A j \in 1..(Len(returned) - 1) :
                returned[j].row_index < returned[j + 1].row_index

\* Row 1 of three raised and the write-back failed: rows 0 and 2 were still
\* returned, in order, with nothing written.
C18_Witness ==
    /\ spc = "done"
    /\ nrows = 3
    /\ futures[1] = "exception"
    /\ batch_updates = <<>>
    /\ returned = <<process_row(0), process_row(2)>>

\* C19: the validator never coerces: what it returns is the mapping it was
\* given, and then the keys are exactly scene_1..scene_18; otherwise it
\* raises and yields no mapping.  The size is tested first: a mapping of a
\* size other than 18 gets the error naming its size, a mapping of size 18
\* with gaps the error naming the lowest-numbered missing key.
LowestMissing(m) ==
    CHOOSE i \in 1..18 :
        /\ scene_key(i) \notin DOMAIN m
        /\ \A j \in 1..(i - 1) : scene_key(j) \in DOMAIN m

C19_NoCoercion ==
    vpc = "done" =>
        /\ vout.kind \in {"return", "ValueError"}
        /\ vout.kind = "return" => (vout.value = v /\ DOMAIN v = RequiredKeys)
        /\ vout.kind = "ValueError" => DOMAIN vout = {"kind", "msg"}
        /\ Cardinality(DOMAIN v) # 18 =>
              vout = ValueError("Must have exactly 18 scenes, got "
                                \o ToString(Cardinality(DOMAIN v)))
        /\ (Cardinality(DOMAIN v) = 18 /\ DOMAIN v # RequiredKeys) =>
              vout = ValueError("Missing required scene: " \o scene_key(LowestMissing(v)))

\* A mapping of 17 keys that lacks scene_3 was rejected for its size, not
\* for the missing key.
C19_Witness ==
    /\ vpc = "done"
    /\ Cardinality(DOMAIN v) = 17
    /\ "scene_3" \notin DOMAIN v
    /\ vout = ValueError("Must have exactly 18 scenes, got 17")

\* C12: in generate_all_scenes_with_rate_limit and in
\* create_multiple_images_with_progress, whatever max_workers is, at most one
\* image call is in flight at any moment, and the call of attempt k+1 begins
\* only after the calls of attempts 1..k have ended, in that order.
C12_OneCallInFlight ==
    /\ Cardinality(inflight) <= 1
    /\ \A j \in 1..Len(fended) : fended[j] = j
    /\ \A k \in inflight : Len(fended) = k - 1

\* The handler was given max_workers > 1 and its third image call is in
\* flight after the first two ended.
C12_Witness ==
    /\ fpath = "create_multiple_images_with_progress"
    /\ fmax_workers > 1
    /\ inflight = {3}
    /\ Len(fended) = 2

\* A summary as C13 describes it, for the results list res.
SummaryMatches(sm, res) ==
    /\ sm.total = Len(res)
    /\ sm.success + sm.failed = sm.total
    /\ sm.success = Cardinality({j \in DOMAIN res : res[j] # None})
    /\ sm.success = Len(sm.generated_files)
    /\ sm.total = 0 => sm.success_rate = 0

\* C13: for every results list, the summary of get_generation_summary and the
\* one inside the report of save_generation_report have total = the number of
\* results, success + failed = total, success = the number of non-None results
\* = the length of generated_files, and success_rate = 0 when total = 0; the
\* details of the report carry the indices 1, 2, ... in input order.
C13_SummaryAndDetails ==
    /\ gpc \in {"summarised", "saved", "raised"} => SummaryMatches(summary, sresults)
    /\ gpc \in {"saved", "raised"} =>
          /\ SummaryMatches(report.summary, sresults)
          /\ \A j \in DOMAIN report.details :
                /\ report.details[j].index = j
                /\ report.details[j].prompt = sprompts[j]
                /\ report.details[j].result = sresults[j]
    /\ gpc = "saved" => report_files[report_path("out")] = report

\* A report of three details was saved for results with a None and a path.
C13_Witness ==
    /\ gpc = "saved"
    /\ Len(report.details) = 3
    /\ \E j \in DOMAIN sresults : sresults[j] = None
    /\ \E j \in DOMAIN sresults : sresults[j] = "out/image_1.png"

\* C14: a click whose create_scenes call raised, a failure of the 18-scene
\* validator included, shows an error and leaves scenes_data,
\* scene_creation_complete and the scenes JSON files as they were; and
\* scenes_data is never anything but None or the dump of a mapping that the
\* 18-scene validator returns.
C14_FailedCreationChangesNothing ==
    /\ [][(ui_clicks' # ui_clicks /\ create_call' = "raised") =>
            /\ shown'.kind = "error"
            /\ scenes_data' = scenes_data
            /\ scene_creation_complete' = scene_creation_complete
            /\ scene_files' = scene_files]_vars
    /\ [](scenes_data # NoData =>
            validate_18_scenes(scenes_data.scenes) = Returned(scenes_data.scenes))

\* After a creation that succeeded and was saved, a later click failed in
\* the validator for a missing scene_7.
C14_Witness ==
    /\ create_call = "raised"
    /\ shown = Message("error", "Missing required scene: scene_7")
    /\ scenes_data # NoData
    /\ scene_creation_complete
    /\ Len(scene_files) = 1

\* C17: with the scenes file loaded, generate_scene_image raises ValueError
\* with no generate_image call made and no file written when scene_number is
\* outside 1..18 or the key scene_<N> is not in the scenes mapping; otherwise
\* it makes one generate_image call, for scene N with the script and keyword
\* of scene_<N>, whose output is <output_dir>/scene_<N>.png: no other file is
\* written, and a path it returns is that file, written.
C17_RejectsBeforeCall ==
    (json_file.exists /\ ipc \in {"raised", "in_generate_image", "returned"}) =>
        LET N == scene_number
            key == "scene_" \o ToString(N)
            path == out_dir \o "/scene_" \o ToString(N) \o ".png"
        IN  IF N \notin 1..18 \/ key \notin DOMAIN json_file.scenes
            THEN /\ ipc = "raised"
                 /\ image_result.type = "ValueError"
                 /\ image_calls = <<>>
                 /\ written = {}
            ELSE /\ Len(image_calls) = 1
                 /\ image_calls[1].selected_scene = N
                 /\ image_calls[1].scene_script = json_file.scenes[key].script
                 /\ image_calls[1].scene_keyword = json_file.scenes[key].main_keyword
                 /\ image_calls[1].output_filename = path
                 /\ written \subseteq {path}
                 /\ (ipc = "returned" /\ image_result.value # None) =>
                        image_result.value = path /\ written = {path}

\* Scene 19 was asked of a file that holds a scene_19 key, and refused.
C17_Witness ==
    /\ ipc = "raised"
    /\ scene_number = 19
    /\ json_file.exists
    /\ "scene_19" \in DOMAIN json_file.scenes
    /\ image_result.type = "ValueError"

\* C16: in the handler of the all-18-scenes button, a scene whose
\* generate_scene_image call raised has the entry in generated_images that it
\* had when the button was clicked, or none when it had none; the scenes are
\* attempted in the order 1, 2, ... whatever raised before, all 18 of them
\* by the end; and a scene that gave an image keeps its path.
C16_RaisedSceneLeavesEntries ==
    /\ \A n \in DOMAIN ub_outcome :
          ub_outcome[n] = "raise" =>
              /\ n \in DOMAIN generated_images <=> n \in DOMAIN images_before
              /\ n \in DOMAIN images_before =>
                    generated_images[n] = images_before[n]
    /\ \A j \in 1..Len(ub_attempts) : ub_attempts[j] = j
    /\ ubpc = "loop" => Len(ub_attempts) = ub_scene - 1
    /\ ubpc = "done" => Len(ub_attempts) = 18
    /\ \A n \in DOMAIN ub_outcome :
          ub_outcome[n] = "image" =>
              /\ n \in DOMAIN generated_images
              /\ generated_images[n] = "generated_images/scene_" \o ToString(n) \o ".png"

\* The batch ran to its end with scene 3, which had an image before, and
\* scene 4, which had no entry, raising, and with scene 2 giving an image.
C16_Witness ==
    /\ ubpc = "done"
    /\ ub_outcome[3] = "raise"
    /\ ub_outcome[4] = "raise"
    /\ ub_outcome[2] = "image"
    /\ 3 \in DOMAIN images_before
    /\ 4 \notin DOMAIN images_before

\* The keys an initialisation function gives a default to.
DefaultKeys(op) ==
    IF op = "initialize_session_state"
    THEN {"scenes_data", "current_scene", "generated_images", "scene_creation_complete"}
    ELSE {"user_data", "project_data", "current_step", "temp_files", "error_log",
          "settings"}

InitOps == {"initialize_session_state", "init_session_state"}

\* C20: a call of initialize_session_state or of init_session_state keeps
\* every key that was present with its value and adds exactly its own keys
\* that were absent; called when its keys are present, and so called again
\* right after itself, it changes nothing; reset_all leaves no key, and the
\* initialisation that follows it leaves exactly its defaults.
C20_SessionLifecycle ==
    /\ [][last_op' \in InitOps =>
            /\ \A k \in DOMAIN session_state :
                  k \in DOMAIN session_state' /\ session_state'[k] = session_state[k]
            /\ DOMAIN session_state' = DOMAIN session_state \cup DefaultKeys(last_op')
            /\ DefaultKeys(last_op') \subseteq DOMAIN session_state =>
                  session_state' = session_state
            /\ last_op = last_op' => session_state' = session_state]_vars
    /\ [][last_op' = "reset_all" => DOMAIN session_state' = {}]_vars
    /\ [][(last_op = "reset_all" /\ last_op' = "initialize_session_state") =>
            session_state' = [scenes_data |-> NoData, current_scene |-> 1,
                              generated_images |-> EmptyDict,
                              scene_creation_complete |-> FALSE]]_vars
    /\ [][(last_op = "reset_all" /\ last_op' = "init_session_state") =>
            session_state' =
                [user_data |-> EmptyDict, project_data |-> EmptyDict,
                 current_step |-> 0, temp_files |-> <<>>, error_log |-> <<>>,
                 settings |-> [debug_mode |-> FALSE, auto_cleanup |-> TRUE,
                               language |-> "ko"]]]_vars

\* init_session_state has run on a session whose current_step and settings
\* had been changed and whose error_log had been cleared.
C20_Witness ==
    /\ last_op = "init_session_state"
    /\ {"current_step", "settings", "current_scene", "error_log"}
          \subseteq DOMAIN session_state
    /\ session_state["current_step"] = 1
    /\ session_state["settings"].language = "en"
    /\ session_state["current_scene"] = 18
    /\ session_state["error_log"] = <<>>

\* The error log of a session state, empty when the key is absent.
LogOf(s) == IF "error_log" \in DOMAIN s THEN s["error_log"] ELSE <<>>

\* C21: a call under handle_errors always returns to its caller; when the
\* operation raised it returns None and the error log is the earlier log, in
\* order, followed by one record of the function name and the error, no other
\* key changing; when the operation returned, the wrapper returns its result
\* and the session state is as it was.
C21_ErrorsRecorded ==
    [][last_op' = "handle_errors" =>
        /\ call_result'.kind = "return"
        /\ call_outcome'.kind = "raise" =>
              /\ call_result'.value = None
              /\ "error_log" \in DOMAIN session_state'
              /\ session_state'["error_log"] =
                    LogOf(session_state) \o
                    <<[function |-> call_outcome'.func, error |-> call_outcome'.error]>>
              /\ \A k \in DOMAIN session_state \ {"error_log"} :
                    k \in DOMAIN session_state' /\ session_state'[k] = session_state[k]
              /\ DOMAIN session_state' = DOMAIN session_state \cup {"error_log"}
        /\ call_outcome'.kind = "return" =>
              /\ call_result'.value = call_outcome'.value
              /\ session_state' = session_state]_vars

\* A second failure was recorded behind the record of a different one.
C21_Witness ==
    /\ last_op = "handle_errors"
    /\ call_outcome.kind = "raise"
    /\ call_result = Return(None)
    /\ Len(LogOf(session_state)) = 2
    /\ LogOf(session_state)[1] # LogOf(session_state)[2]

\* The path lies inside the temp directory: it begins with temp/.
InsideTempDir(path) ==
    Len(path) > 5 /\ SubSeq(path, 1, 5) = <<"t", "e", "m", "p", "/">>

\* C22 (as claimed): a cleanup_temp_dir call without force leaves every
\* directory in place unless temp_path lies inside the temp directory, and
\* returns False for an existing path outside it.
C22_OnlyInsideTempDir ==
    (kpc = "returned" /\ ~force /\ ~InsideTempDir(temp_path)) =>
        /\ fs_dirs = dirs_before
        /\ temp_path \in dirs_before => cleanup_result = FALSE

\* C23 (as claimed): with two sessions running the batch at overlapping
\* times, every scene of a session is generated from the temporary file as
\* that session wrote it: no read finds another session's scenes, and no
\* read finds the file gone.
C23_OwnScenesOnly ==
    \A s \in Sessions : read_foreign[s] = {} /\ read_missing[s] = {}

\* C24 (as claimed): whatever buttons were clicked, the image file of every
\* entry of generated_images was generated from the scenes that scenes_data
\* holds now, so the gallery shows it with its own script and keyword.
C24_ImagesOfHeldScenes ==
    \A n \in DOMAIN shown_images :
        shown_images[n] # None => image_files[shown_images[n]] = held_scenes

\* C25 (as claimed): in the all-18-scenes handler a scene whose download
\* answered another status than 200, with no exception, gets no entry in
\* generated_images: the entry it had, if any, stays, and so it adds nothing
\* to the count of images; and the value stored for a scene that gave an
\* image is a path, not None.
C25_NoEntryWithoutImage ==
    \A n \in DOMAIN ub_outcome :
        /\ ub_outcome[n] = "no_image" =>
              /\ n \in DOMAIN generated_images <=> n \in DOMAIN images_before
              /\ n \in DOMAIN images_before =>
                    generated_images[n] = images_before[n]
        /\ ub_outcome[n] = "image" =>
              n \in DOMAIN generated_images /\ generated_images[n] # None

\* The scenes of a mapping that are missing or lack a field.
MalformedIn(scenes) ==
    {i \in 1..18 : \/ scene_key(i) \notin DOMAIN scenes
                   \/ ~({"script", "main_keyword"} \subseteq DOMAIN scenes[scene_key(i)])}

\* C26 (as claimed): on a file with one malformed scene no exception leaves
\* generate_all_scenes_with_rate_limit, and when it has returned the
\* malformed scene is recorded as None and generate_image was called for
\* each of the other 17 scenes.
C26_MalformedSceneIsolated ==
    /\ malpc # "raised"
    /\ malpc = "returned" =>
          /\ \A b \in MalformedIn(mal_scenes) : mal_results[b] = None
          /\ mal_calls = 1..18 \ MalformedIn(mal_scenes)
          /\ DOMAIN mal_results = 1..18

\* The indices some retry succeeded for.
RetriedOk == {revents[j].idx : j \in {k \in 1..Len(revents) :
                  revents[k].e = "create_single_image" /\ revents[k].ok}}

\* C27: retry_failed_images returns a mapping whose keys are among the failed
\* indices it was given and whose values are all paths; after the merge
\* every entry that was not returned by the retry pass is as the first pass
\* left it, so every first-pass success keeps its path, and an entry is None
\* exactly when the item failed in the first pass and in every retry made
\* for it.
C27_RetryMerge ==
    /\ (mgpc \in {"retrying", "summary"} /\ rpc = "done") =>
          /\ DOMAIN retry_results \subseteq NoneAt(first_results)
          /\ \A k \in DOMAIN retry_results : retry_results[k] # None
    /\ mgpc = "summary" =>
          /\ Len(merged_results) = Len(first_results)
          /\ \A i \in 1..Len(first_results) :
                /\ (i - 1) \notin DOMAIN retry_results =>
                        merged_results[i] = first_results[i]
                /\ first_results[i] # None => merged_results[i] = first_results[i]
                /\ merged_results[i] = None <=>
                        (first_results[i] = None /\ (i - 1) \notin RetriedOk)

\* A first pass with a success and two failures was retried: one failure
\* succeeded in the second round, the other failed in all three rounds, and
\* the results were merged.
C27_Witness ==
    /\ mgpc = "summary"
    /\ Len(first_results) = 3
    /\ NoneAt(first_results) = {0, 2}
    /\ max_retries = 3
    /\ DOMAIN retry_results = {2}
    /\ \E j \in 1..Len(revents) :
          revents[j].e = "create_single_image" /\ revents[j].idx = 2
          /\ revents[j].round = 1 /\ revents[j].ok
    /\ Cardinality(RetriesOf(0, 0) \cup RetriesOf(0, 1) \cup RetriesOf(0, 2)) = 3
    /\ merged_results[1] = None
    /\ merged_results[2] = first_results[2]
    /\ merged_results[3] = retry_results[2]

\* The details of a report that carry the status.
DetailsWith(status) == {j \in DOMAIN report.details : report.details[j].status = status}

\* C28 (as claimed): for every prompts/results pair the saved report has one
\* details entry per result, as many details with status "success" as
\* summary.success, and as many with status "failed" as summary.failed.
C28_ReportConsistent ==
    gpc = "saved" =>
        /\ Len(report.details) = Len(sresults)
        /\ Cardinality(DetailsWith("success")) = report.summary.success
        /\ Cardinality(DetailsWith("failed")) = report.summary.failed

\* The column of new_column_name for the headers hs: its place when hs has
\* it, otherwise the place behind the last header.
TargetColumn(hs) ==
    IF \E j \in 1..Len(hs) : hs[j] = new_column_name
    THEN CHOOSE j \in 1..Len(hs) : hs[j] = new_column_name
    ELSE Len(hs) + 1

\* C29: the batch update of the write-back has exactly one entry for each
\* analysed row, the row with data-frame index i going to sheet row i + 2 of
\* the column holding new_column_name; that column is the existing one when
\* the header is there and otherwise a header appended behind the last
\* existing column, it is the only column with that header, and no two
\* entries of the update have the same target cell.
C29_WriteBackTargets ==
    [][(spc = "sorted" /\ batch_updates' # batch_updates) =>
        LET upd == batch_updates'[Len(batch_updates')]
            analysed == {r \in DOMAIN futures : futures[r] = "result"}
            column == col_num_to_letter(TargetColumn(headers))
        IN  /\ Len(batch_updates') = Len(batch_updates) + 1
            /\ headers' = IF TargetColumn(headers) <= Len(headers)
                          THEN headers
                          ELSE Append(headers, new_column_name)
            /\ Cardinality({j \in 1..Len(headers') : headers'[j] = new_column_name}) = 1
            /\ headers'[TargetColumn(headers)] = new_column_name
            /\ Len(upd) = Cardinality(analysed)
            /\ \A r \in analysed : \E j \in 1..Len(upd) :
                  /\ upd[j].range = <<"sheet", column, r + 2>>
                  /\ upd[j].values = "analysis_" \o ToString(r)
            /\ \A j, k \in 1..Len(upd) : j # k => upd[j].range # upd[k].range
      ]_vars

\* Three rows were analysed for a sheet without the header: it was appended
\* as the second column and the rows were written to B2, B3 and B4.
C29_Witness ==
    /\ spc = "done"
    /\ nrows = 3
    /\ headers = <<"input", new_column_name>>
    /\ Len(batch_updates) = 1
    /\ Len(batch_updates[1]) = 3
    /\ \A r \in 0..2 : batch_updates[1][r + 1].range = <<"sheet", <<"B">>, r + 2>>

\* C30 (as claimed): whatever calls of init_session_state, update_settings
\* and reset_settings were made before, get_settings returns a mapping with
\* every key of DEFAULT_SETTINGS; reset_settings leaves exactly
\* DEFAULT_SETTINGS in the session; and the class's DEFAULT_SETTINGS is
\* never changed.
C30_SettingsComplete ==
    /\ last_op = "get_settings" =>
          DOMAIN DEFAULT_SETTINGS \subseteq DOMAIN settings_result
    /\ last_op = "reset_settings" => session_state["settings"] = DEFAULT_SETTINGS
    /\ class_defaults = DEFAULT_SETTINGS

====
